---- MODULE Spec2Model ----
(***************************************************************************)
(* Model of the journal store of src/lib/store/journalStore.ts (zustand).  *)
(*                                                                         *)
(* JavaScript objects are functions from property names to values: a       *)
(* property that is missing or undefined is a name outside DOMAIN, and the *)
(* object spread {...a, ...b} is Spread(a, b).  The updates object passed  *)
(* to updateEntry can hold own properties whose value is undefined, which  *)
(* the spread copies: it is Updates(props, undefined), the properties that *)
(* hold a value and the names of those that hold undefined.  Dates are     *)
(* integers (clock instants), TicksPerDay instants to the calendar day.    *)
(* Each call of new Date() in a handler is a read of the clock; the reads  *)
(* of one handler are a sequence, in the order the handler makes them.     *)
(*                                                                         *)
(* The first day of the clock is BASE_DATE, 2026-10-24, and the instants   *)
(* of a day are evenly spaced from 06:00 UTC on (HourOf).  The host's time *)
(* zone is one of Zones: UTC, or Europe/London, where summer time ends on  *)
(* 2026-10-25, the second day of the clock.  In both zones an instant of   *)
(* the clock falls on the same calendar day (DayOf), which is what         *)
(* toLocaleDateString and isSameDay read; calculateStreak also reads the   *)
(* local midnights and their UTC dates, which depend on the zone.          *)
(***************************************************************************)
EXTENDS Integers, Sequences, FiniteSets, TLC

\* ---- bounds of the model ----
MaxTime == 1         \* last clock instant explored
MaxSteps == 3        \* store action calls and timer callbacks explored
MaxShown == 3        \* entries of the collections the filtered view is computed from
MaxDay == 3          \* last calendar day of the collections the streak is computed from

\* ---- values ----
TicksPerDay == 2
HoursPerDay == 24    \* msPerDay, in hours
InvalidDate == -1    \* new Date(undefined), new Date("garbage")
NullDate == -2       \* null where a date is expected
NullString == "<null>"   \* null where a string is expected
EpochDate == -4      \* new Date(null): 1970-01-01, days before every instant of the clock
Null == [null |-> TRUE]

VARIABLES
    entries,        \* JournalState.entries
    currentEntry,   \* JournalState.currentEntry: an entry or Null
    isEditing,      \* JournalState.isEditing
    cachedTags,     \* JournalState.cachedTags: Null or [list |-> tags]
    entriesLength,  \* JournalState.entriesLength
    streakData,     \* JournalState.streakData
    searchQuery,    \* JournalState.searchQuery
    selectedTag,    \* JournalState.selectedTag: a tag or NullString
    selectedMood,   \* JournalState.selectedMood: a mood or NullString
    selectedDate,   \* JournalState.selectedDate: an instant or NullDate
    viewMode,       \* JournalState.viewMode
    settings,       \* JournalState.settings
    pendingStreak,  \* setTimeout(() => get().calculateStreak(), 0) callbacks not yet run
    now,            \* the clock read by new Date()
    nextUuid,       \* number of the next crypto.randomUUID() result
    lastOp,         \* the last action on the entries called, with what the claims need of it
    steps           \* actions on the entries called and timer callbacks run so far

filterVars == <<searchQuery, selectedTag, selectedMood, selectedDate, viewMode>>
storeVars == <<entries, currentEntry, isEditing, cachedTags, entriesLength, streakData,
               filterVars, settings>>
vars == <<entries, currentEntry, isEditing, cachedTags, entriesLength, streakData,
          searchQuery, selectedTag, selectedMood, selectedDate, viewMode, settings,
          pendingStreak, now, nextUuid, lastOp, steps>>

\* ---- JavaScript helpers ----
\* {...a, ...b}
Spread(a, b) == [k \in DOMAIN a \cup DOMAIN b |-> IF k \in DOMAIN b THEN b[k] ELSE a[k]]
\* an object with property k set to undefined
Without(a, k) == [j \in DOMAIN a \ {k} |-> a[j]]
Has(a, k) == k \in DOMAIN a
\* array.map(f) on indices
MapSeq(s, F(_)) == [i \in 1..Len(s) |-> F(s[i])]
\* array.filter(p)
FilterSeq(s, P(_)) == SelectSeq(s, P)
\* array.find(p): the first match, or Null for undefined
FindSeq(s, P(_)) ==
    LET found == SelectSeq(s, P) IN
    IF found = <<>> THEN Null ELSE found[1]
\* the truthiness of entry.isDeleted
IsDeleted(e) == Has(e, "isDeleted") /\ e.isDeleted
\* the truthiness of entry.isFavorite
IsFavorite(e) == Has(e, "isFavorite") /\ e.isFavorite
\* the truthiness of a string or null
Truthy(str) == str # NullString /\ str # ""
\* the instant of the clock as a time in hours after 00:00 UTC of BASE_DATE
HourOf(t) == (HoursPerDay \div TicksPerDay) * t + 6
\* the time zones of the host
Zones == {"UTC", "Europe/London"}
\* the offset of the local time of the zone from UTC at the time h, in hours: British
\* Summer Time ends on 2026-10-25 at 01:00 UTC
UtcOffset(zone, h) == IF zone = "Europe/London" /\ h < HoursPerDay + 1 THEN 1 ELSE 0
\* the local calendar day of the time h, in days after BASE_DATE
LocalDay(zone, h) == (h + UtcOffset(zone, h)) \div HoursPerDay
\* date.setHours(0, 0, 0, 0): the time of the local midnight that starts the local
\* calendar day of the time h.  It lies the local time of day before h, by the offset
\* in force at h, corrected by how much the offset has changed in between
setHours(zone, h) ==
    LET back == h - ((h + UtcOffset(zone, h)) % HoursPerDay) IN
    back + (UtcOffset(zone, h) - UtcOffset(zone, back))
\* date.toISOString().slice(0, 10): the UTC date of the time h, in days after BASE_DATE
toISODate(h) == h \div HoursPerDay
\* the calendar day of an instant of the clock, the same in every zone of Zones
DayOf(t) == HourOf(t) \div HoursPerDay
\* new Date(value) for a stored date (a Date, or the ISO string or the null it is
\* after a reload): null is read as 1970-01-01
NewDateOf(value) == IF value = NullDate THEN EpochDate ELSE value
\* a later call of new Date() in the same handler: the same instant, or the next while
\* the clock has instants left
Later(t) == {t} \cup {u \in {t + 1} : u <= MaxTime}
\* the instants n successive calls of new Date() can return, the first one at t
RECURSIVE ReadsFrom(_, _)
ReadsFrom(t, n) ==
    IF n = 0 THEN {<<>>}
    ELSE {<<t>> \o rest : rest \in UNION {ReadsFrom(u, n - 1) : u \in Later(t)}}
\* the reads of the clock a handler that calls new Date() n times can make
ClockReads(n) == ReadsFrom(now, n)
\* the clock after the reads
LastRead(reads) == IF Len(reads) = 0 THEN now ELSE reads[Len(reads)]
\* the number of entries of the collection with the id among the first i: the number of
\* the clock read made for entry i by entries.map(entry => entry.id === id ? ... : entry)
ReadNo(es, id, i) == Cardinality({j \in 1..i : es[j].id = id})
\* array.map(f) where f is given the element and its index
MapIndexed(s, F(_, _)) == [i \in 1..Len(s) |-> F(s[i], i)]
\* an object literal with own properties that hold undefined
Updates(props, undefined) == [props |-> props, undefined |-> undefined]
\* {...a, ...updates}: a property of updates that holds undefined is copied as undefined
SpreadUpdates(a, updates) ==
    [k \in (DOMAIN a \cup DOMAIN updates.props) \ updates.undefined |->
        IF k \in DOMAIN updates.props THEN updates.props[k] ELSE a[k]]

\* the zustand state the handlers read and write
Store == [entries |-> entries, currentEntry |-> currentEntry, isEditing |-> isEditing,
          cachedTags |-> cachedTags, entriesLength |-> entriesLength,
          streakData |-> streakData, searchQuery |-> searchQuery,
          selectedTag |-> selectedTag, selectedMood |-> selectedMood,
          selectedDate |-> selectedDate, viewMode |-> viewMode, settings |-> settings]
\* set(partial): the partial state is merged into the state
Commit(partial) ==
    /\ entries' = IF Has(partial, "entries") THEN partial.entries ELSE entries
    /\ currentEntry' = IF Has(partial, "currentEntry") THEN partial.currentEntry ELSE currentEntry
    /\ isEditing' = IF Has(partial, "isEditing") THEN partial.isEditing ELSE isEditing
    /\ cachedTags' = IF Has(partial, "cachedTags") THEN partial.cachedTags ELSE cachedTags
    /\ entriesLength' = IF Has(partial, "entriesLength") THEN partial.entriesLength ELSE entriesLength
    /\ streakData' = IF Has(partial, "streakData") THEN partial.streakData ELSE streakData
    /\ searchQuery' = IF Has(partial, "searchQuery") THEN partial.searchQuery ELSE searchQuery
    /\ selectedTag' = IF Has(partial, "selectedTag") THEN partial.selectedTag ELSE selectedTag
    /\ selectedMood' = IF Has(partial, "selectedMood") THEN partial.selectedMood ELSE selectedMood
    /\ selectedDate' = IF Has(partial, "selectedDate") THEN partial.selectedDate ELSE selectedDate
    /\ viewMode' = IF Has(partial, "viewMode") THEN partial.viewMode ELSE viewMode
    /\ settings' = IF Has(partial, "settings") THEN partial.settings ELSE settings

\* ---- identifiers ----
Uuid(n) == "u" \o ToString(n)
UuidIds == {Uuid(n) : n \in 1..MaxSteps}
ForeignIds == {"x1"}
AllIds == UuidIds \cup ForeignIds
IdsOf(es) == {es[i].id : i \in 1..Len(es)}
\* the ids passed to the actions: every id the store holds and one it does not
UnknownId == "none"
ArgIds == IdsOf(entries) \cup (IF currentEntry = Null THEN {} ELSE {currentEntry.id})
          \cup {UnknownId}

\* ---- entry defaults ----
DEFAULT_ENTRY == [title |-> "New Entry", content |-> "", createdAt |-> 0, updatedAt |-> 0,
                  tags |-> <<>>, isFavorite |-> FALSE, images |-> <<>>, isDeleted |-> FALSE]
\* JSON.stringify of the template document
TEMPLATE_CONTENT ==
    "{\"type\":\"doc\",\"content\":["
    \o "{\"type\":\"heading\",\"attrs\":{\"level\":2},\"content\":[{\"type\":\"text\",\"text\":\"Today's Journal\"}]},"
    \o "{\"type\":\"paragraph\",\"content\":[{\"type\":\"text\",\"text\":\"How am I feeling today?\"}]},"
    \o "{\"type\":\"paragraph\",\"content\":[{\"type\":\"text\",\"text\":\"What went well today?\"}]},"
    \o "{\"type\":\"paragraph\",\"content\":[{\"type\":\"text\",\"text\":\"What could have gone better?\"}]},"
    \o "{\"type\":\"paragraph\",\"content\":[{\"type\":\"text\",\"text\":\"What am I grateful for?\"}]},"
    \o "{\"type\":\"paragraph\",\"content\":[{\"type\":\"text\",\"text\":\"What are my goals for tomorrow?\"}]}]}"
TEMPLATE_ENTRY == [title |-> "New Entry", content |-> TEMPLATE_CONTENT, createdAt |-> 0,
                   updatedAt |-> 0, tags |-> <<"daily">>, isFavorite |-> FALSE,
                   images |-> <<>>, isDeleted |-> FALSE]
\* the calendar date of the first day of the clock
BASE_DATE == [year |-> 2026, month |-> 10, day |-> 24]
IsLeapYear(y) == (y % 4 = 0 /\ y % 100 # 0) \/ y % 400 = 0
DaysInMonth(y, m) ==
    IF m = 2 THEN (IF IsLeapYear(y) THEN 29 ELSE 28)
    ELSE IF m \in {4, 6, 9, 11} THEN 30 ELSE 31
\* the calendar date of the day after
NextDate(d) ==
    IF d.day < DaysInMonth(d.year, d.month) THEN [d EXCEPT !.day = @ + 1]
    ELSE IF d.month < 12 THEN [year |-> d.year, month |-> d.month + 1, day |-> 1]
    ELSE [year |-> d.year + 1, month |-> 1, day |-> 1]
\* the calendar date n days after d
RECURSIVE AddDays(_, _)
AddDays(d, n) ==
    IF d.day + n <= DaysInMonth(d.year, d.month) THEN [d EXCEPT !.day = @ + n]
    ELSE AddDays(NextDate([d EXCEPT !.day = DaysInMonth(d.year, d.month)]),
                 n - (DaysInMonth(d.year, d.month) - d.day) - 1)
\* Date.prototype.toLocaleDateString() in the en-US locale: M/D/YYYY
toLocaleDateString(t) ==
    LET d == AddDays(BASE_DATE, DayOf(t)) IN
    ToString(d.month) \o "/" \o ToString(d.day) \o "/" \o ToString(d.year)
\* `Journal Entry - ${new Date().toLocaleDateString()}`
TitleAt(t) == "Journal Entry - " \o toLocaleDateString(t)

DEFAULT_STREAK == [currentStreak |-> 0, longestStreak |-> 0, lastEntryDate |-> NullDate]
DEFAULT_SETTINGS == [enableAnimations |-> TRUE, compactMode |-> FALSE, entryGoal |-> 5,
                     useTemplates |-> FALSE, defaultSortOrder |-> "newest",
                     editorTheme |-> "system", fontFamily |-> "default"]

Init ==
    /\ entries = <<>>
    /\ currentEntry = Null
    /\ isEditing = FALSE
    /\ cachedTags = Null
    /\ entriesLength = 0
    /\ streakData = DEFAULT_STREAK
    /\ searchQuery = ""
    /\ selectedTag = NullString
    /\ selectedMood = NullString
    /\ selectedDate = NullDate
    /\ viewMode = "all"
    /\ settings = DEFAULT_SETTINGS
    /\ pendingStreak = 0
    /\ now = 0
    /\ nextUuid = 1
    /\ lastOp = [op |-> "init"]
    /\ steps = 0

\* one more action on the entries called or timer callback run
Taken == steps < MaxSteps /\ steps' = steps + 1

\* ---- createEntry / createEntryWithTemplate ----
newEntry(base, id, tCreated, tUpdated, tTitle) ==
    Spread(base, [id |-> id, createdAt |-> tCreated, updatedAt |-> tUpdated,
                  title |-> TitleAt(tTitle)])

\* createEntrySet with the new entry pushed at the end of the collection
createEntrySet_Appends(state, e) ==
    [entries |-> state.entries \o <<e>>,
     currentEntry |-> e,
     isEditing |-> TRUE,
     entriesLength |-> Len(state.entries) + 1,
     cachedTags |-> Null]

createEntrySet(state, e) ==
    [entries |-> <<e>> \o state.entries,
     currentEntry |-> e,
     isEditing |-> TRUE,
     entriesLength |-> Len(state.entries) + 1,
     cachedTags |-> Null]

Create(op, base) ==
    /\ Taken
    /\ \E t2 \in Later(now) : \E t3 \in Later(t2) :
         /\ Commit(createEntrySet(Store, newEntry(base, Uuid(nextUuid), now, t2, t3)))
         /\ now' = t3
    /\ nextUuid' = nextUuid + 1
    /\ pendingStreak' = pendingStreak + 1
    /\ lastOp' = [op |-> op, id |-> Uuid(nextUuid)]

createEntry == Create("createEntry", DEFAULT_ENTRY)
createEntryWithTemplate == Create("createEntryWithTemplate", TEMPLATE_ENTRY)

\* ---- deleteEntry (soft delete) ----
\* deleteEntrySet that stamps the entry with deletedAt and leaves isDeleted as it was
deleteEntrySet_OnlyStamps(state, id, reads) ==
    LET updatedEntries ==
            MapIndexed(state.entries, LAMBDA entry, i :
                IF entry.id = id
                THEN Spread(entry, [deletedAt |-> reads[ReadNo(state.entries, id, i)]])
                ELSE entry)
        updatedCurrentEntry ==
            IF state.currentEntry # Null /\ state.currentEntry.id = id
            THEN FindSeq(updatedEntries, LAMBDA entry : ~IsDeleted(entry))
            ELSE state.currentEntry
    IN [entries |-> updatedEntries,
        currentEntry |-> updatedCurrentEntry,
        entriesLength |-> Len(updatedEntries),
        cachedTags |-> Null]

\* deleteEntrySet that searches the collection as it was before the delete
deleteEntrySet_SearchesOld(state, id, reads) ==
    LET updatedEntries ==
            MapIndexed(state.entries, LAMBDA entry, i :
                IF entry.id = id
                THEN Spread(entry, [isDeleted |-> TRUE,
                                    deletedAt |-> reads[ReadNo(state.entries, id, i)]])
                ELSE entry)
        updatedCurrentEntry ==
            IF state.currentEntry # Null /\ state.currentEntry.id = id
            THEN FindSeq(state.entries, LAMBDA entry : ~IsDeleted(entry))
            ELSE state.currentEntry
    IN [entries |-> updatedEntries,
        currentEntry |-> updatedCurrentEntry,
        entriesLength |-> Len(updatedEntries),
        cachedTags |-> Null]

\* deleteEntrySet that also refreshes updatedAt of the entry
deleteEntrySet_RefreshesUpdatedAt(state, id, reads) ==
    LET updatedEntries ==
            MapIndexed(state.entries, LAMBDA entry, i :
                IF entry.id = id
                THEN Spread(entry, [isDeleted |-> TRUE,
                                    deletedAt |-> reads[ReadNo(state.entries, id, i)],
                                    updatedAt |-> reads[ReadNo(state.entries, id, i)]])
                ELSE entry)
        updatedCurrentEntry ==
            IF state.currentEntry # Null /\ state.currentEntry.id = id
            THEN FindSeq(updatedEntries, LAMBDA entry : ~IsDeleted(entry))
            ELSE state.currentEntry
    IN [entries |-> updatedEntries,
        currentEntry |-> updatedCurrentEntry,
        entriesLength |-> Len(updatedEntries),
        cachedTags |-> Null]

deleteEntrySet(state, id, reads) ==
    LET updatedEntries ==
            MapIndexed(state.entries, LAMBDA entry, i :
                IF entry.id = id
                THEN Spread(entry, [isDeleted |-> TRUE,
                                    deletedAt |-> reads[ReadNo(state.entries, id, i)]])
                ELSE entry)
        updatedCurrentEntry ==
            IF state.currentEntry # Null /\ state.currentEntry.id = id
            THEN FindSeq(updatedEntries, LAMBDA entry : ~IsDeleted(entry))
            ELSE state.currentEntry
    IN [entries |-> updatedEntries,
        currentEntry |-> updatedCurrentEntry,
        entriesLength |-> Len(updatedEntries),
        cachedTags |-> Null]

IsCurrent(id) == currentEntry # Null /\ currentEntry.id = id
\* the calls of new Date() of a handler that stamps every entry with the id and then
\* the current entry when it has the id
StampReads(id) == ReadNo(entries, id, Len(entries)) + (IF IsCurrent(id) THEN 1 ELSE 0)

\* deleteEntry without the setTimeout that defers the recalculation
deleteEntry_NoTimer(id) ==
    /\ Taken
    /\ \E reads \in ClockReads(ReadNo(entries, id, Len(entries))) :
         /\ Commit(deleteEntrySet(Store, id, reads))
         /\ now' = LastRead(reads)
    /\ lastOp' = [op |-> "deleteEntry", id |-> id, wasCurrent |-> IsCurrent(id)]
    /\ UNCHANGED <<pendingStreak, nextUuid>>

\* one read of the clock for each entry with the id
deleteEntry(id) ==
    /\ Taken
    /\ \E reads \in ClockReads(ReadNo(entries, id, Len(entries))) :
         /\ Commit(deleteEntrySet(Store, id, reads))
         /\ now' = LastRead(reads)
    /\ pendingStreak' = pendingStreak + 1
    /\ lastOp' = [op |-> "deleteEntry", id |-> id, wasCurrent |-> IsCurrent(id)]
    /\ UNCHANGED nextUuid

\* ---- permanentlyDeleteEntry (purge) ----
\* permanentlyDeleteEntrySet that may pick the purged entry itself as the next current entry
permanentlyDeleteEntrySet_PicksPurged(state, id) ==
    LET updatedEntries == FilterSeq(state.entries, LAMBDA entry : entry.id # id)
        updatedCurrentEntry ==
            IF state.currentEntry # Null /\ state.currentEntry.id = id
            THEN FindSeq(state.entries, LAMBDA entry : IsDeleted(entry))
            ELSE state.currentEntry
    IN [entries |-> updatedEntries,
        currentEntry |-> updatedCurrentEntry,
        entriesLength |-> Len(updatedEntries),
        cachedTags |-> Null]

permanentlyDeleteEntrySet(state, id) ==
    LET updatedEntries == FilterSeq(state.entries, LAMBDA entry : entry.id # id)
        updatedCurrentEntry ==
            IF state.currentEntry # Null /\ state.currentEntry.id = id
            THEN FindSeq(state.entries, LAMBDA entry : IsDeleted(entry) /\ entry.id # id)
            ELSE state.currentEntry
    IN [entries |-> updatedEntries,
        currentEntry |-> updatedCurrentEntry,
        entriesLength |-> Len(updatedEntries),
        cachedTags |-> Null]

permanentlyDeleteEntry(id) ==
    /\ Taken
    /\ Commit(permanentlyDeleteEntrySet(Store, id))
    /\ lastOp' = [op |-> "permanentlyDeleteEntry", id |-> id, wasCurrent |-> IsCurrent(id),
                  found |-> id \in IdsOf(entries)]
    /\ UNCHANGED <<pendingStreak, now, nextUuid>>

\* ---- restoreEntry ----
\* restoreEntrySet that leaves the deletion timestamp in place
restoreEntrySet_KeepsDeletedAt(state, id) ==
    LET updatedEntries ==
            MapSeq(state.entries, LAMBDA entry :
                IF entry.id = id
                THEN Spread(entry, [isDeleted |-> FALSE])
                ELSE entry)
    IN [entries |-> updatedEntries,
        entriesLength |-> Len(updatedEntries),
        cachedTags |-> Null]

\* restoreEntrySet that leaves the cached tag list in place
restoreEntrySet_KeepsCache(state, id) ==
    LET updatedEntries ==
            MapSeq(state.entries, LAMBDA entry :
                IF entry.id = id
                THEN Without(Spread(entry, [isDeleted |-> FALSE]), "deletedAt")
                ELSE entry)
    IN [entries |-> updatedEntries,
        entriesLength |-> Len(updatedEntries)]

restoreEntrySet(state, id) ==
    LET updatedEntries ==
            MapSeq(state.entries, LAMBDA entry :
                IF entry.id = id
                THEN Without(Spread(entry, [isDeleted |-> FALSE]), "deletedAt")
                ELSE entry)
    IN [entries |-> updatedEntries,
        entriesLength |-> Len(updatedEntries),
        cachedTags |-> Null]

restoreEntry(id) ==
    /\ Taken
    /\ Commit(restoreEntrySet(Store, id))
    /\ pendingStreak' = pendingStreak + 1
    /\ lastOp' = [op |-> "restoreEntry", id |-> id,
                  wasDeleted |-> \E i \in 1..Len(entries) :
                                    entries[i].id = id /\ IsDeleted(entries[i])]
    /\ UNCHANGED <<now, nextUuid>>

\* ---- emptyBin ----
\* emptyBinSet with the filter inverted
emptyBinSet_KeepsBin(state) ==
    LET updatedEntries == FilterSeq(state.entries, LAMBDA entry : IsDeleted(entry))
        updatedCurrentEntry ==
            IF state.currentEntry # Null /\ IsDeleted(state.currentEntry)
            THEN IF Len(updatedEntries) > 0 THEN updatedEntries[1] ELSE Null
            ELSE state.currentEntry
    IN [entries |-> updatedEntries,
        currentEntry |-> updatedCurrentEntry,
        entriesLength |-> Len(updatedEntries),
        cachedTags |-> Null]

\* emptyBinSet that leaves currentEntry as it was
emptyBinSet_KeepsCurrent(state) ==
    LET updatedEntries == FilterSeq(state.entries, LAMBDA entry : ~IsDeleted(entry))
    IN [entries |-> updatedEntries,
        currentEntry |-> state.currentEntry,
        entriesLength |-> Len(updatedEntries),
        cachedTags |-> Null]

emptyBinSet(state) ==
    LET updatedEntries == FilterSeq(state.entries, LAMBDA entry : ~IsDeleted(entry))
        updatedCurrentEntry ==
            IF state.currentEntry # Null /\ IsDeleted(state.currentEntry)
            THEN IF Len(updatedEntries) > 0 THEN updatedEntries[1] ELSE Null
            ELSE state.currentEntry
    IN [entries |-> updatedEntries,
        currentEntry |-> updatedCurrentEntry,
        entriesLength |-> Len(updatedEntries),
        cachedTags |-> Null]

emptyBin ==
    /\ Taken
    /\ Commit(emptyBinSet(Store))
    /\ lastOp' = [op |-> "emptyBin",
                  currentWasDeleted |-> currentEntry # Null /\ IsDeleted(currentEntry),
                  purged |-> \E i \in 1..Len(entries) : IsDeleted(entries[i])]
    /\ UNCHANGED <<pendingStreak, now, nextUuid>>

\* ---- setCurrentEntry ----
\* setCurrentEntry that sets currentEntry to null when no entry has the id
setCurrentEntry_ClearsOnMiss(arg) ==
    /\ Taken
    /\ IF arg = Null
       THEN Commit([currentEntry |-> Null])
       ELSE LET entry == FindSeq(entries, LAMBDA e : e.id = arg.id) IN
            IF entry # Null
            THEN Commit([currentEntry |-> entry, isEditing |-> FALSE])
            ELSE Commit([currentEntry |-> Null])
    /\ lastOp' = [op |-> "setCurrentEntry", arg |-> arg]
    /\ UNCHANGED <<pendingStreak, now, nextUuid>>

setCurrentEntry(arg) ==
    /\ Taken
    /\ IF arg = Null
       THEN Commit([currentEntry |-> Null])
       ELSE LET entry == FindSeq(entries, LAMBDA e : e.id = arg.id) IN
            IF entry # Null
            THEN Commit([currentEntry |-> entry, isEditing |-> FALSE])
            ELSE UNCHANGED storeVars
    /\ lastOp' = [op |-> "setCurrentEntry", arg |-> arg]
    /\ UNCHANGED <<pendingStreak, now, nextUuid>>

\* ---- updateEntry ----
\* content values passed to updateEntry
StringContent(str) == [type |-> "string", value |-> str]
ObjectContent == [type |-> "object", json |-> "{\"type\":\"doc\"}"]   \* JSON.stringify succeeds
CircularContent == [type |-> "circular"]                               \* JSON.stringify throws

ensureContentString(content) ==
    IF content.type = "string" THEN content.value
    ELSE IF content.type = "object" THEN content.json
    ELSE ""

\* { ...updates }, with content replaced when updates.content !== undefined
processedUpdates(updates) ==
    IF Has(updates.props, "content")
    THEN [updates EXCEPT !.props = Spread(@, [content |-> ensureContentString(@.content)])]
    ELSE updates

\* updateEntrySet that refreshes updatedAt on every entry of the collection
updateEntrySet_StampsAll(state, id, updates, reads) ==
    LET updatedEntries ==
            MapIndexed(state.entries, LAMBDA entry, i :
                IF entry.id = id
                THEN Spread(SpreadUpdates(entry, processedUpdates(updates)),
                            [updatedAt |-> reads[ReadNo(state.entries, id, i)]])
                ELSE Spread(entry, [updatedAt |-> LastRead(reads)]))
        updatedCurrentEntry ==
            IF state.currentEntry # Null /\ state.currentEntry.id = id
            THEN Spread(SpreadUpdates(state.currentEntry, processedUpdates(updates)),
                        [updatedAt |-> reads[ReadNo(state.entries, id, Len(state.entries)) + 1]])
            ELSE state.currentEntry
    IN [entries |-> updatedEntries,
        currentEntry |-> updatedCurrentEntry,
        entriesLength |-> Len(updatedEntries),
        cachedTags |-> Null]

updateEntrySet(state, id, updates, reads) ==
    LET updatedEntries ==
            MapIndexed(state.entries, LAMBDA entry, i :
                IF entry.id = id
                THEN Spread(SpreadUpdates(entry, processedUpdates(updates)),
                            [updatedAt |-> reads[ReadNo(state.entries, id, i)]])
                ELSE entry)
        updatedCurrentEntry ==
            IF state.currentEntry # Null /\ state.currentEntry.id = id
            THEN Spread(SpreadUpdates(state.currentEntry, processedUpdates(updates)),
                        [updatedAt |-> reads[ReadNo(state.entries, id, Len(state.entries)) + 1]])
            ELSE state.currentEntry
    IN [entries |-> updatedEntries,
        currentEntry |-> updatedCurrentEntry,
        entriesLength |-> Len(updatedEntries),
        cachedTags |-> Null]

HOME == [name |-> "Home"]
SUNNY == [condition |-> "Sunny", temperature |-> 20, icon |-> "sun"]
\* the updates explored: a title with mood, location and weather undefined, as the
\* editor passes them when they are not set; a content object; a content that
\* JSON.stringify rejects; every field; and a content that is undefined
UpdateInputs ==
    {Updates([title |-> "T"], {"mood", "location", "weather"}),
     Updates([content |-> ObjectContent], {}),
     Updates([content |-> CircularContent], {}),
     Updates([title |-> "T", content |-> StringContent("C"), tags |-> <<"a">>,
              mood |-> "happy", isFavorite |-> TRUE, images |-> <<"img1">>,
              location |-> HOME, weather |-> SUNNY], {}),
     Updates([title |-> "T"], {"content"})}

\* one read of the clock for each entry with the id, and one more for the current entry
\* when it has the id
updateEntry(id, updates) ==
    /\ Taken
    /\ \E reads \in ClockReads(StampReads(id)) :
         /\ Commit(updateEntrySet(Store, id, updates, reads))
         /\ now' = LastRead(reads)
    /\ lastOp' = [op |-> "updateEntry", id |-> id, updates |-> updates]
    /\ UNCHANGED <<pendingStreak, nextUuid>>

\* ---- toggleFavorite ----
toggleFavoriteSet(state, id) ==
    LET updatedEntries ==
            MapSeq(state.entries, LAMBDA entry :
                IF entry.id = id
                THEN Spread(entry, [isFavorite |-> ~(Has(entry, "isFavorite") /\ entry.isFavorite)])
                ELSE entry)
        updatedCurrentEntry ==
            IF state.currentEntry # Null /\ state.currentEntry.id = id
            THEN Spread(state.currentEntry,
                        [isFavorite |-> ~(Has(state.currentEntry, "isFavorite")
                                          /\ state.currentEntry.isFavorite)])
            ELSE state.currentEntry
    IN [entries |-> updatedEntries,
        currentEntry |-> updatedCurrentEntry]

toggleFavorite(id) ==
    /\ Taken
    /\ Commit(toggleFavoriteSet(Store, id))
    /\ lastOp' = [op |-> "toggleFavorite"]
    /\ UNCHANGED <<pendingStreak, now, nextUuid>>

\* ---- getAllTags ----
\* Array.from(new Set(list)): the elements in the order of their first occurrence
RECURSIVE ArrayFromSet(_)
ArrayFromSet(list) ==
    IF Len(list) = 0 THEN <<>>
    ELSE LET front == ArrayFromSet(SubSeq(list, 1, Len(list) - 1))
             last == list[Len(list)]
         IN IF \E i \in 1..Len(front) : front[i] = last THEN front ELSE Append(front, last)

\* the tags met by entries.forEach(entry => entry.tags.forEach(...)), in order
RECURSIVE TagsOf(_)
TagsOf(es) == IF Len(es) = 0 THEN <<>> ELSE Head(es).tags \o TagsOf(Tail(es))

\* getAllTags(): the array returned, or threw when entry.tags of an entry that is not
\* deleted is undefined
getAllTags(state) ==
    LET active == FilterSeq(state.entries, LAMBDA entry : ~IsDeleted(entry)) IN
    IF \E i \in 1..Len(active) : ~Has(active[i], "tags")
    THEN [threw |-> TRUE]
    ELSE [threw |-> FALSE, tags |-> ArrayFromSet(TagsOf(active))]

\* ---- updateTagCache ----
\* the same forEach as getAllTags, then set: nothing is set when entry.tags.forEach throws
updateTagCache ==
    /\ Taken
    /\ IF getAllTags(Store).threw
       THEN UNCHANGED storeVars
       ELSE Commit([cachedTags |-> [list |-> getAllTags(Store).tags],
                    entriesLength |-> Len(entries)])
    /\ lastOp' = [op |-> "updateTagCache", threw |-> getAllTags(Store).threw]
    /\ UNCHANGED <<pendingStreak, now, nextUuid>>

\* ---- addImageToEntry / removeImageFromEntry ----
addImageToEntrySet(state, id, imageBase64, reads) ==
    LET updatedEntries ==
            MapIndexed(state.entries, LAMBDA entry, i :
                IF entry.id = id
                THEN Spread(entry, [images |-> entry.images \o <<imageBase64>>,
                                    updatedAt |-> reads[ReadNo(state.entries, id, i)]])
                ELSE entry)
        updatedCurrentEntry ==
            IF state.currentEntry # Null /\ state.currentEntry.id = id
            THEN Spread(state.currentEntry,
                        [images |-> state.currentEntry.images \o <<imageBase64>>,
                         updatedAt |-> reads[ReadNo(state.entries, id, Len(state.entries)) + 1]])
            ELSE state.currentEntry
    IN [entries |-> updatedEntries,
        currentEntry |-> updatedCurrentEntry]

\* [...entry.images] or [...state.currentEntry.images] throws when images is undefined
SpreadsImages(state, id) ==
    /\ \A i \in 1..Len(state.entries) :
         state.entries[i].id = id => Has(state.entries[i], "images")
    /\ (state.currentEntry # Null /\ state.currentEntry.id = id)
         => Has(state.currentEntry, "images")

\* the calls of new Date() made before [...entry.images] throws: one for each entry with
\* the id before the first one of them that has no images
ReadsBeforeThrow(state, id) ==
    LET without == {i \in 1..Len(state.entries) :
                       state.entries[i].id = id /\ ~Has(state.entries[i], "images")}
    IN IF without = {} THEN ReadNo(state.entries, id, Len(state.entries))
       ELSE ReadNo(state.entries, id, CHOOSE i \in without : \A j \in without : i <= j) - 1

addImageToEntry(id, imageBase64) ==
    /\ Taken
    /\ IF SpreadsImages(Store, id)
       THEN \E reads \in ClockReads(StampReads(id)) :
              /\ Commit(addImageToEntrySet(Store, id, imageBase64, reads))
              /\ now' = LastRead(reads)
       ELSE \E reads \in ClockReads(ReadsBeforeThrow(Store, id)) :
              /\ UNCHANGED storeVars
              /\ now' = LastRead(reads)
    /\ lastOp' = [op |-> "addImageToEntry", threw |-> ~SpreadsImages(Store, id)]
    /\ UNCHANGED <<pendingStreak, nextUuid>>

\* array.splice(start, 1) on a copy of the array
Splice1(arr, imageIndex) ==
    LET len == Len(arr)
        start == IF imageIndex < 0
                 THEN (IF len + imageIndex < 0 THEN 0 ELSE len + imageIndex)
                 ELSE (IF imageIndex > len THEN len ELSE imageIndex)
    IN [i \in 1..(IF start < len THEN len - 1 ELSE len) |->
            IF i <= start THEN arr[i] ELSE arr[i + 1]]

removeImageFromEntrySet(state, id, imageIndex, reads) ==
    LET entry == FindSeq(state.entries, LAMBDA e : e.id = id) IN
    IF entry = Null THEN state
    ELSE LET updatedImages == Splice1(entry.images, imageIndex)
             updatedEntries ==
                 MapIndexed(state.entries, LAMBDA e, i :
                     IF e.id = id
                     THEN Spread(e, [images |-> updatedImages,
                                     updatedAt |-> reads[ReadNo(state.entries, id, i)]])
                     ELSE e)
             updatedCurrentEntry ==
                 IF state.currentEntry # Null /\ state.currentEntry.id = id
                 THEN Spread(state.currentEntry,
                             [images |-> updatedImages,
                              updatedAt |->
                                  reads[ReadNo(state.entries, id, Len(state.entries)) + 1]])
                 ELSE state.currentEntry
         IN [entries |-> updatedEntries,
             currentEntry |-> updatedCurrentEntry]

\* [...entry.images] throws when the first entry with the id has no images
RemoveThrows(state, id) ==
    LET entry == FindSeq(state.entries, LAMBDA e : e.id = id) IN
    entry # Null /\ ~Has(entry, "images")

ImageIndexes == -1..1

\* no read of the clock when no entry has the id: the handler returns the state
removeImageFromEntry(id, imageIndex) ==
    /\ Taken
    /\ IF ~RemoveThrows(Store, id)
       THEN \E reads \in ClockReads(IF id \in IdsOf(entries) THEN StampReads(id) ELSE 0) :
              /\ Commit(removeImageFromEntrySet(Store, id, imageIndex, reads))
              /\ now' = LastRead(reads)
       ELSE UNCHANGED <<storeVars, now>>
    /\ lastOp' = [op |-> "removeImageFromEntry", threw |-> RemoveThrows(Store, id)]
    /\ UNCHANGED <<pendingStreak, nextUuid>>

\* ---- updateEntryLocation / updateEntryWeather ----
\* {...obj, [k]: arg, updatedAt}: arg is Null for undefined
SetOptional(obj, k, arg, t) ==
    IF arg = Null
    THEN Spread(Without(obj, k), [updatedAt |-> t])
    ELSE Spread(obj, [x \in {k} |-> arg] @@ [updatedAt |-> t])

updateOptionalSet(state, id, k, arg, reads) ==
    LET updatedEntries ==
            MapIndexed(state.entries, LAMBDA entry, i :
                IF entry.id = id
                THEN SetOptional(entry, k, arg, reads[ReadNo(state.entries, id, i)])
                ELSE entry)
        updatedCurrentEntry ==
            IF state.currentEntry # Null /\ state.currentEntry.id = id
            THEN SetOptional(state.currentEntry, k, arg,
                             reads[ReadNo(state.entries, id, Len(state.entries)) + 1])
            ELSE state.currentEntry
    IN [entries |-> updatedEntries,
        currentEntry |-> updatedCurrentEntry]

updateEntryLocationSet(state, id, location, reads) ==
    updateOptionalSet(state, id, "location", location, reads)

updateEntryWeatherSet(state, id, weather, reads) ==
    updateOptionalSet(state, id, "weather", weather, reads)

updateEntryLocation(id, location) ==
    /\ Taken
    /\ \E reads \in ClockReads(StampReads(id)) :
         /\ Commit(updateEntryLocationSet(Store, id, location, reads))
         /\ now' = LastRead(reads)
    /\ lastOp' = [op |-> "updateEntryLocation"]
    /\ UNCHANGED <<pendingStreak, nextUuid>>

updateEntryWeather(id, weather) ==
    /\ Taken
    /\ \E reads \in ClockReads(StampReads(id)) :
         /\ Commit(updateEntryWeatherSet(Store, id, weather, reads))
         /\ now' = LastRead(reads)
    /\ lastOp' = [op |-> "updateEntryWeather"]
    /\ UNCHANGED <<pendingStreak, nextUuid>>

\* ---- calculateStreak (called by the deferred timers and by the effect on entries) ----
\* the keys of entriesByDate in ascending order (dateStrings)
RECURSIVE SortedDays(_)
SortedDays(days) ==
    IF days = {} THEN <<>>
    ELSE LET d == CHOOSE x \in days : \A y \in days : x <= y
         IN <<d>> \o SortedDays(days \ {d})

\* CountBack that walks on over the days that have no entry
RECURSIVE CountBack_WalksOverGaps(_, _)
CountBack_WalksOverGaps(entriesByDate, checkDate) ==
    IF \E dateString \in entriesByDate : dateString <= toISODate(checkDate)
    THEN (IF toISODate(checkDate) \in entriesByDate THEN 1 ELSE 0)
         + CountBack_WalksOverGaps(entriesByDate, checkDate - HoursPerDay)
    ELSE 0

\* the while loop: checkDate walks back msPerDay at a time while its date string is a
\* key of entriesByDate
RECURSIVE CountBack(_, _)
CountBack(entriesByDate, checkDate) ==
    IF toISODate(checkDate) \in entriesByDate
    THEN 1 + CountBack(entriesByDate, checkDate - HoursPerDay)
    ELSE 0

\* Math.floor((currDate.getTime() - prevDate.getTime()) / msPerDay) of two date
\* strings, new Date(dateString) being 00:00 UTC of that date
dayDiff(prevDate, currDate) ==
    (HoursPerDay * currDate - HoursPerDay * prevDate) \div HoursPerDay

\* the for loop over dateStrings from index i with the running streak
RECURSIVE LongestFrom(_, _, _, _)
LongestFrom(dateStrings, i, streak, longestStreak) ==
    IF i > Len(dateStrings)
    THEN IF longestStreak > streak THEN longestStreak ELSE streak
    ELSE IF dayDiff(dateStrings[i - 1], dateStrings[i]) = 1
         THEN LongestFrom(dateStrings, i + 1, streak + 1, longestStreak)
         ELSE LongestFrom(dateStrings, i + 1, 1,
                          IF longestStreak > streak THEN longestStreak ELSE streak)

Max(S) == CHOOSE x \in S : \A y \in S : y <= x

\* calculateStreakResult without the early return for a collection with no entry that
\* is not deleted: sortedEntries[0].createdAt then throws
calculateStreakResult_NoEarlyReturn(es, today, zone) ==
    LET activeEntries == FilterSeq(es, LAMBDA entry : ~IsDeleted(entry))
        created == {NewDateOf(activeEntries[i].createdAt) : i \in 1..Len(activeEntries)}
    IN IF Len(activeEntries) = 0 \/ InvalidDate \in created
       THEN [threw |-> TRUE]
       ELSE LET entriesByDate == {toISODate(setHours(zone, HourOf(t))) : t \in created}
                lastEntryDate == setHours(zone, HourOf(Max(created)))
                daysSinceLastEntry ==
                    (setHours(zone, HourOf(today)) - lastEntryDate) \div HoursPerDay
                currentStreak == IF daysSinceLastEntry > 1 THEN 0
                                 ELSE CountBack(entriesByDate, lastEntryDate)
                dateStrings == SortedDays(entriesByDate)
                longestStreak == LongestFrom(dateStrings, 2, 1, 0)
            IN [threw |-> FALSE,
                streakData |-> [currentStreak |-> currentStreak,
                                longestStreak |-> longestStreak,
                                lastEntryDate |-> TicksPerDay * LocalDay(zone, lastEntryDate)]]

\* calculateStreakResult that counts, for the current streak, every entry created on
\* the days of the run instead of every day of the run
calculateStreakResult_CountsEntries(es, today, zone) ==
    LET activeEntries == FilterSeq(es, LAMBDA entry : ~IsDeleted(entry))
        created == {NewDateOf(activeEntries[i].createdAt) : i \in 1..Len(activeEntries)}
    IN IF Len(activeEntries) = 0
       THEN [threw |-> FALSE, streakData |-> DEFAULT_STREAK]
       ELSE IF InvalidDate \in created
       THEN [threw |-> TRUE]
       ELSE LET entriesByDate == {toISODate(setHours(zone, HourOf(t))) : t \in created}
                lastEntryDate == setHours(zone, HourOf(Max(created)))
                daysSinceLastEntry ==
                    (setHours(zone, HourOf(today)) - lastEntryDate) \div HoursPerDay
                run == CountBack(entriesByDate, lastEntryDate)
                currentStreak ==
                    IF daysSinceLastEntry > 1 THEN 0
                    ELSE Cardinality({i \in 1..Len(activeEntries) :
                             toISODate(lastEntryDate)
                               - toISODate(setHours(zone, HourOf(NewDateOf(activeEntries[i].createdAt))))
                                 < run})
                dateStrings == SortedDays(entriesByDate)
                longestStreak == LongestFrom(dateStrings, 2, 1, 0)
            IN [threw |-> FALSE,
                streakData |-> [currentStreak |-> currentStreak,
                                longestStreak |-> longestStreak,
                                lastEntryDate |-> TicksPerDay * LocalDay(zone, lastEntryDate)]]

\* the result of calculateStreak on a collection, run at the instant today in the time
\* zone of the host: the streakData it sets, or threw when toISOString() meets an
\* Invalid Date.  The dates are local midnights, the keys of entriesByDate their UTC
\* dates, and the days since the last entry the whole multiples of msPerDay between two
\* local midnights.  The lastEntryDate stored is a local midnight, which is no instant
\* of the clock: it is written as the first instant of its local calendar day
calculateStreakResult(es, today, zone) ==
    LET activeEntries == FilterSeq(es, LAMBDA entry : ~IsDeleted(entry))
        created == {NewDateOf(activeEntries[i].createdAt) : i \in 1..Len(activeEntries)}
    IN IF Len(activeEntries) = 0
       THEN [threw |-> FALSE, streakData |-> DEFAULT_STREAK]
       ELSE IF InvalidDate \in created
       THEN [threw |-> TRUE]
       ELSE LET entriesByDate == {toISODate(setHours(zone, HourOf(t))) : t \in created}
                lastEntryDate == setHours(zone, HourOf(Max(created)))
                daysSinceLastEntry ==
                    (setHours(zone, HourOf(today)) - lastEntryDate) \div HoursPerDay
                currentStreak == IF daysSinceLastEntry > 1 THEN 0
                                 ELSE CountBack(entriesByDate, lastEntryDate)
                dateStrings == SortedDays(entriesByDate)
                longestStreak == LongestFrom(dateStrings, 2, 1, 0)
            IN [threw |-> FALSE,
                streakData |-> [currentStreak |-> currentStreak,
                                longestStreak |-> longestStreak,
                                lastEntryDate |-> TicksPerDay * LocalDay(zone, lastEntryDate)]]

\* one run of calculateStreak(), in the time zone the host has when it runs:
\* set({streakData}) writes streakData and nothing else, or the run throws and sets
\* nothing
calculateStreakRun ==
    /\ \E zone \in Zones :
         LET r == calculateStreakResult(entries, now, zone) IN
         /\ streakData' = IF r.threw THEN streakData ELSE r.streakData
         /\ lastOp' = [op |-> "calculateStreak", threw |-> r.threw]
    /\ UNCHANGED <<entries, currentEntry, isEditing, cachedTags, entriesLength, filterVars,
                   settings, now, nextUuid>>

\* the callback of a pending timer runs get().calculateStreak()
StreakTimer ==
    /\ pendingStreak > 0
    /\ pendingStreak' = pendingStreak - 1
    /\ calculateStreakRun

\* a pending timer runs between two calls of the store
StreakTimeout ==
    /\ Taken
    /\ StreakTimer

\* calculateStreak() called directly, as the effect on [entries, calculateStreak] does:
\* the timers that are pending stay pending
calculateStreak ==
    /\ Taken
    /\ calculateStreakRun
    /\ UNCHANGED pendingStreak

\* ---- importEntries ----
\* typeof e[k] for an element of the parsed entries array
TypeOf(e, k) ==
    IF e.type # "object" \/ ~Has(e.props, k) THEN "undefined"
    ELSE IF k \in e.numeric THEN "number" ELSE "string"

isValidJournalEntry(e) ==
    /\ e.type = "object"
    /\ TypeOf(e, "id") = "string"
    /\ TypeOf(e, "title") = "string"
    /\ TypeOf(e, "content") = "string"

\* new Date(entry[k]) for a property holding an ISO date string, null, or nothing
NewDate(props, k) ==
    IF ~Has(props, k) THEN InvalidDate
    ELSE NewDateOf(props[k])

processEntry(e) ==
    LET dated == Spread(e.props, [createdAt |-> NewDate(e.props, "createdAt"),
                                  updatedAt |-> NewDate(e.props, "updatedAt")])
    IN IF Has(e.props, "deletedAt") /\ e.props.deletedAt # NullDate
       THEN Spread(dated, [deletedAt |-> NewDate(e.props, "deletedAt")])
       ELSE Without(dated, "deletedAt")

\* importEntriesResult with the imported entries pushed after the existing ones
importEntriesResult_Appends(state, jsonData) ==
    IF jsonData.parse = "error"
    THEN [ok |-> FALSE, threw |-> TRUE]
    ELSE LET parsed == jsonData.value IN
    IF parsed.type = "null"
    THEN [ok |-> FALSE, threw |-> TRUE]
    ELSE IF parsed.type # "object" \/ ~Has(parsed.props, "entries")
              \/ parsed.props.entries.type # "array"
    THEN [ok |-> FALSE, threw |-> FALSE]
    ELSE LET validEntries == FilterSeq(parsed.props.entries.items, isValidJournalEntry) IN
    IF Len(validEntries) = 0
    THEN [ok |-> FALSE, threw |-> FALSE]
    ELSE LET processedEntries == MapSeq(validEntries, processEntry) IN
         [ok |-> TRUE, threw |-> FALSE,
          set |-> [entries |-> state.entries \o processedEntries,
                   entriesLength |-> Len(state.entries) + Len(processedEntries),
                   cachedTags |-> Null]]

\* importEntriesResult without the check that some entry passed validation
importEntriesResult_NoEmptyCheck(state, jsonData) ==
    IF jsonData.parse = "error"
    THEN [ok |-> FALSE, threw |-> TRUE]
    ELSE LET parsed == jsonData.value IN
    IF parsed.type = "null"
    THEN [ok |-> FALSE, threw |-> TRUE]
    ELSE IF parsed.type # "object" \/ ~Has(parsed.props, "entries")
              \/ parsed.props.entries.type # "array"
    THEN [ok |-> FALSE, threw |-> FALSE]
    ELSE LET validEntries == FilterSeq(parsed.props.entries.items, isValidJournalEntry)
             processedEntries == MapSeq(validEntries, processEntry) IN
         [ok |-> TRUE, threw |-> FALSE,
          set |-> [entries |-> processedEntries \o state.entries,
                   entriesLength |-> Len(state.entries) + Len(processedEntries),
                   cachedTags |-> Null]]

\* importEntries(jsonData): the value returned and the partial state set
importEntriesResult(state, jsonData) ==
    IF jsonData.parse = "error"
    THEN [ok |-> FALSE, threw |-> TRUE]                 \* JSON.parse throws
    ELSE LET parsed == jsonData.value IN
    IF parsed.type = "null"
    THEN [ok |-> FALSE, threw |-> TRUE]                 \* parsed.entries throws
    ELSE IF parsed.type # "object" \/ ~Has(parsed.props, "entries")
              \/ parsed.props.entries.type # "array"
    THEN [ok |-> FALSE, threw |-> FALSE]
    ELSE LET validEntries == FilterSeq(parsed.props.entries.items, isValidJournalEntry) IN
    IF Len(validEntries) = 0
    THEN [ok |-> FALSE, threw |-> FALSE]
    ELSE LET processedEntries == MapSeq(validEntries, processEntry) IN
         [ok |-> TRUE, threw |-> FALSE,
          set |-> [entries |-> processedEntries \o state.entries,
                   entriesLength |-> Len(state.entries) + Len(processedEntries),
                   cachedTags |-> Null]]

\* the inputs explored
BareProps(id) == [id |-> id, title |-> "Imported", content |-> "c"]
ActiveProps(id) ==
    Spread(BareProps(id), [createdAt |-> 0, updatedAt |-> 0, tags |-> <<"a">>,
                           isFavorite |-> FALSE, images |-> <<>>, isDeleted |-> FALSE])
BinnedProps(id) == Spread(ActiveProps(id), [isDeleted |-> TRUE, deletedAt |-> 0])
FlaggedProps(id) == Spread(ActiveProps(id), [isDeleted |-> TRUE])
JsonObject(props) == [type |-> "object", props |-> props, numeric |-> {}]
ValidElems(ids) ==
    {JsonObject(p) : p \in {BareProps("x1"), BinnedProps("x1"), FlaggedProps("x1")} \cup {ActiveProps(id) : id \in ids}}
InvalidElems ==
    {[type |-> "null"],
     JsonObject([id |-> "x1", title |-> "Imported"]),
     [type |-> "object", props |-> BareProps("x1"), numeric |-> {"id"}]}
JsonText(value) == [parse |-> "ok", value |-> value]
\* an array that mixes elements that pass validation with one that does not
MixedItems ==
    <<JsonObject(ActiveProps("x1")),
      JsonObject([id |-> "x1", title |-> "Imported"]),
      JsonObject(BinnedProps("x1"))>>
ImportInputs(ids) ==
    {[parse |-> "error"],
     JsonText([type |-> "null"]),
     JsonText([type |-> "number"]),
     JsonText([type |-> "array"]),
     JsonText([type |-> "object", props |-> [foo |-> [type |-> "array", items |-> <<>>]]]),
     JsonText([type |-> "object", props |-> [entries |-> [type |-> "string"]]])}
    \cup {JsonText([type |-> "object", props |-> [entries |-> [type |-> "array", items |-> items]]]) :
            items \in {<<>>, MixedItems} \cup {<<e>> : e \in ValidElems(ids) \cup InvalidElems}}

\* ---- exportEntries ----
\* Date.prototype.toJSON: the ISO string of the instant, null for an Invalid Date
DateToJSON(d) == IF d = InvalidDate THEN NullDate ELSE d

\* the JSON object JSON.stringify writes for an entry
EntryToJSON(entry) ==
    JsonObject([k \in DOMAIN entry |->
                    IF k \in {"createdAt", "updatedAt", "deletedAt"}
                    THEN DateToJSON(entry[k])
                    ELSE entry[k]])

\* JSON.stringify({ entries }, null, 2), as the value JSON.parse reads back from it
exportEntries(state) ==
    JsonText([type |-> "object",
              props |-> [entries |-> [type |-> "array",
                                      items |-> MapSeq(state.entries, EntryToJSON)]]])

\* ---- persist: the state kept in localStorage and read back on load ----
partialize(state) ==
    [entries |-> state.entries, settings |-> state.settings, streakData |-> state.streakData]

\* JSON.parse(JSON.stringify(...)) of the persisted part: a date comes back as its ISO
\* string, an Invalid Date as null
FromStorage(persisted) ==
    [entries |-> MapSeq(persisted.entries, LAMBDA entry : EntryToJSON(entry).props),
     settings |-> persisted.settings,
     streakData |-> [persisted.streakData EXCEPT !.lastEntryDate = DateToJSON(@)]]

\* the state the store is created with
InitialState ==
    [entries |-> <<>>, currentEntry |-> Null, searchQuery |-> "", selectedTag |-> NullString,
     selectedMood |-> NullString, selectedDate |-> NullDate, isEditing |-> FALSE,
     cachedTags |-> Null, entriesLength |-> 0, viewMode |-> "all",
     settings |-> DEFAULT_SETTINGS, streakData |-> DEFAULT_STREAK]

\* the state after a reload: the persisted part of the state merged into the initial state
Rehydrated(state) == Spread(InitialState, FromStorage(partialize(state)))

\* an imported id is foreign or the id of an entry created earlier
ImportIds == ForeignIds \cup {Uuid(n) : n \in 1..(IF nextUuid > 1 THEN 1 ELSE 0)}

\* the number of elements of the entries array of the input, 0 when it has none
ElementsOf(jsonData) ==
    IF /\ jsonData.parse = "ok"
       /\ jsonData.value.type = "object"
       /\ Has(jsonData.value.props, "entries")
       /\ jsonData.value.props.entries.type = "array"
    THEN Len(jsonData.value.props.entries.items)
    ELSE 0

importEntries(jsonData) ==
    LET r == importEntriesResult(Store, jsonData) IN
    /\ Taken
    /\ IF r.ok
       THEN /\ Commit(r.set)
            /\ pendingStreak' = pendingStreak + 1
       ELSE UNCHANGED <<storeVars, pendingStreak>>
    /\ lastOp' = [op |-> "importEntries", jsonData |-> jsonData,
                  elements |-> ElementsOf(jsonData), result |-> r.ok]
    /\ UNCHANGED <<now, nextUuid>>

\* ---- editing mode, filter state and settings ----
\* each setter is one set() of its argument; the caller counts the call
setIsEditing(state) ==
    /\ Commit([isEditing |-> state])
    /\ UNCHANGED <<pendingStreak, now, nextUuid>>

setSearchQuery(query) ==
    /\ Commit([searchQuery |-> query])
    /\ UNCHANGED <<pendingStreak, now, nextUuid>>

setSelectedTag(tag) ==
    /\ Commit([selectedTag |-> tag])
    /\ UNCHANGED <<pendingStreak, now, nextUuid>>

setSelectedMood(mood) ==
    /\ Commit([selectedMood |-> mood])
    /\ UNCHANGED <<pendingStreak, now, nextUuid>>

setSelectedDate(date) ==
    /\ Commit([selectedDate |-> date])
    /\ UNCHANGED <<pendingStreak, now, nextUuid>>

setViewMode(mode) ==
    /\ Commit([viewMode |-> mode])
    /\ UNCHANGED <<pendingStreak, now, nextUuid>>

updateSettings(newSettings) ==
    /\ Commit([settings |-> Spread(settings, newSettings)])
    /\ UNCHANGED <<pendingStreak, now, nextUuid>>

\* ---- the filtered view (components/EditorWrapper.tsx) ----
LowerCase == "abcdefghijklmnopqrstuvwxyz"
UpperCase == "ABCDEFGHIJKLMNOPQRSTUVWXYZ"
CharAt(str, i) == SubSeq(str, i, i)

\* the lower case form of a character
LowerOf(c) ==
    IF \E k \in 1..26 : CharAt(UpperCase, k) = c
    THEN CharAt(LowerCase, CHOOSE k \in 1..26 : CharAt(UpperCase, k) = c)
    ELSE c

\* String.prototype.toLowerCase: every character in its lower case form, computed on
\* the two halves of the string
RECURSIVE toLowerCase(_)
toLowerCase(str) ==
    IF Len(str) = 0 THEN ""
    ELSE IF Len(str) = 1 THEN LowerOf(str)
    ELSE LET half == Len(str) \div 2
         IN toLowerCase(SubSeq(str, 1, half)) \o toLowerCase(SubSeq(str, half + 1, Len(str)))

\* String.prototype.includes
includes(str, part) ==
    \E i \in 1..(Len(str) - Len(part) + 1) : SubSeq(str, i, i + Len(part) - 1) = part

\* ByViewMode with a favorites view that keeps the deleted favorites
ByViewMode_KeepsDeletedFavorites(state, result) ==
    IF state.viewMode = "favorites"
    THEN FilterSeq(result, LAMBDA entry : IsFavorite(entry))
    ELSE IF state.viewMode = "deleted"
    THEN FilterSeq(result, LAMBDA entry : IsDeleted(entry))
    ELSE FilterSeq(result, LAMBDA entry : ~IsDeleted(entry))

\* the base set of the view mode
ByViewMode(state, result) ==
    IF state.viewMode = "favorites"
    THEN FilterSeq(result, LAMBDA entry : IsFavorite(entry) /\ ~IsDeleted(entry))
    ELSE IF state.viewMode = "deleted"
    THEN FilterSeq(result, LAMBDA entry : IsDeleted(entry))
    ELSE FilterSeq(result, LAMBDA entry : ~IsDeleted(entry))

\* the callback of the search filter on an entry: entry.title.toLowerCase(),
\* entry.content.toLowerCase() and entry.tags.some are reached in this order and throw
\* when the property is undefined
SearchMatch(entry, query) ==
    IF ~Has(entry, "title") THEN "threw"
    ELSE IF includes(toLowerCase(entry.title), query) THEN "kept"
    ELSE IF ~Has(entry, "content") THEN "threw"
    ELSE IF includes(toLowerCase(entry.content), query) THEN "kept"
    ELSE IF ~Has(entry, "tags") THEN "threw"
    ELSE IF \E k \in 1..Len(entry.tags) : includes(toLowerCase(entry.tags[k]), query)
    THEN "kept" ELSE "dropped"

\* the search filter
BySearch(state, r) ==
    IF r.threw \/ ~Truthy(state.searchQuery) THEN r
    ELSE LET query == toLowerCase(state.searchQuery) IN
         IF \E i \in 1..Len(r.result) : SearchMatch(r.result[i], query) = "threw"
         THEN [threw |-> TRUE]
         ELSE [threw |-> FALSE,
               result |-> FilterSeq(r.result, LAMBDA entry :
                              SearchMatch(entry, query) = "kept")]

\* ByTag applied in the deleted view as well
ByTag_InEveryView(state, r) ==
    IF r.threw \/ ~Truthy(state.selectedTag) THEN r
    ELSE IF \E i \in 1..Len(r.result) : ~Has(r.result[i], "tags")
    THEN [threw |-> TRUE]
    ELSE [threw |-> FALSE,
          result |-> FilterSeq(r.result, LAMBDA entry :
                         \E k \in 1..Len(entry.tags) : entry.tags[k] = state.selectedTag)]

\* the tag filter: entry.tags.includes throws when tags is undefined
ByTag(state, r) ==
    IF r.threw \/ ~(Truthy(state.selectedTag) /\ state.viewMode # "deleted") THEN r
    ELSE IF \E i \in 1..Len(r.result) : ~Has(r.result[i], "tags")
    THEN [threw |-> TRUE]
    ELSE [threw |-> FALSE,
          result |-> FilterSeq(r.result, LAMBDA entry :
                         \E k \in 1..Len(entry.tags) : entry.tags[k] = state.selectedTag)]

\* isEqual of the calendar days of new Date(d1) and of the date d2; never equal for an
\* Invalid Date
SameDay(d1, d2) ==
    /\ NewDateOf(d1) # InvalidDate
    /\ d2 # InvalidDate
    /\ DayOf(NewDateOf(d1)) = DayOf(d2)

ByDate(state, r) ==
    IF r.threw \/ ~(state.selectedDate # NullDate /\ state.viewMode # "deleted") THEN r
    ELSE [threw |-> FALSE,
          result |-> FilterSeq(r.result, LAMBDA entry :
                         SameDay(entry.createdAt, state.selectedDate))]

ByMood(state, r) ==
    IF r.threw \/ ~(Truthy(state.selectedMood) /\ state.viewMode # "deleted") THEN r
    ELSE [threw |-> FALSE,
          result |-> FilterSeq(r.result, LAMBDA entry :
                         Has(entry, "mood") /\ entry.mood = state.selectedMood)]

\* the sign of a number
Sign(n) == IF n < 0 THEN "neg" ELSE IF n > 0 THEN "pos" ELSE "zero"

\* the sign of new Date(d1).getTime() - new Date(d2).getTime(), NaN for an Invalid Date
DateDiff(d1, d2) ==
    IF NewDateOf(d1) = InvalidDate \/ NewDateOf(d2) = InvalidDate THEN "NaN"
    ELSE Sign(NewDateOf(d1) - NewDateOf(d2))

\* a.deletedAt ? new Date(a.deletedAt).getTime() : 0, as a date (0 is the epoch); a
\* deletedAt that is undefined or null is falsy
DeletedTime(entry) ==
    IF Has(entry, "deletedAt") /\ entry.deletedAt # NullDate THEN entry.deletedAt
    ELSE EpochDate

\* the collation of the characters of the titles: space, punctuation, digits, letters
Collation == " -/0123456789abcdefghijklmnopqrstuvwxyz"
Rank(c) == CHOOSE k \in 1..Len(Collation) : CharAt(Collation, k) = c

\* the sign of two strings compared character by character by Rank
RECURSIVE CompareRanks(_, _)
CompareRanks(s1, s2) ==
    IF Len(s1) = 0 /\ Len(s2) = 0 THEN "zero"
    ELSE IF Len(s1) = 0 THEN "neg"
    ELSE IF Len(s2) = 0 THEN "pos"
    ELSE IF CharAt(s1, 1) = CharAt(s2, 1)
         THEN CompareRanks(SubSeq(s1, 2, Len(s1)), SubSeq(s2, 2, Len(s2)))
         ELSE Sign(Rank(CharAt(s1, 1)) - Rank(CharAt(s2, 1)))

\* the first difference of case of two strings equal but for case: lower case first
RECURSIVE CompareCase(_, _)
CompareCase(s1, s2) ==
    IF Len(s1) = 0 THEN "zero"
    ELSE IF CharAt(s1, 1) = CharAt(s2, 1)
         THEN CompareCase(SubSeq(s1, 2, Len(s1)), SubSeq(s2, 2, Len(s2)))
         ELSE IF CharAt(s1, 1) = toLowerCase(CharAt(s1, 1)) THEN "neg" ELSE "pos"

\* a.localeCompare(b) for titles written with the characters of Collation
localeCompare(s1, s2) ==
    LET primary == CompareRanks(toLowerCase(s1), toLowerCase(s2)) IN
    IF primary # "zero" THEN primary ELSE CompareCase(s1, s2)

\* the comparator of sortEntries for a sort option: the sign of its result
Compare(sortOption, a, b) ==
    IF sortOption = "oldest" THEN DateDiff(a.createdAt, b.createdAt)
    ELSE IF sortOption = "alphabetical" THEN localeCompare(a.title, b.title)
    ELSE IF IsDeleted(a) /\ IsDeleted(b) THEN DateDiff(DeletedTime(b), DeletedTime(a))
    ELSE IF ~IsDeleted(a) /\ ~IsDeleted(b) THEN DateDiff(b.updatedAt, a.updatedAt)
    ELSE IF IsDeleted(a) THEN "pos" ELSE "neg"

\* the array with e put after the elements of the sorted array that do not follow it
RECURSIVE InsertSorted(_, _, _)
InsertSorted(sortOption, sorted, e) ==
    IF Len(sorted) = 0 THEN <<e>>
    ELSE IF Compare(sortOption, e, sorted[Len(sorted)]) = "neg"
         THEN Append(InsertSorted(sortOption, SubSeq(sorted, 1, Len(sorted) - 1), e),
                     sorted[Len(sorted)])
         ELSE Append(sorted, e)

\* the stable sort of an array by a consistent comparator
RECURSIVE StableSort(_, _)
StableSort(sortOption, arr) ==
    IF Len(arr) = 0 THEN <<>>
    ELSE InsertSorted(sortOption, StableSort(sortOption, SubSeq(arr, 1, Len(arr) - 1)),
                      arr[Len(arr)])

\* the arrays that hold the elements of arr in some order
PermutationsOf(arr) ==
    {[i \in 1..Len(arr) |-> arr[p[i]]] :
        p \in {q \in [1..Len(arr) -> 1..Len(arr)] :
                  \A i, j \in 1..Len(arr) : i # j => q[i] # q[j]}}

\* the comparator as Array.prototype.sort reads it: NaN counts as 0
SortCompare(sortOption, a, b) ==
    IF Compare(sortOption, a, b) = "NaN" THEN "zero" ELSE Compare(sortOption, a, b)

\* the comparator orders the elements of arr consistently
Consistent(sortOption, arr) ==
    \A i, j, k \in 1..Len(arr) :
        LET ab == SortCompare(sortOption, arr[i], arr[j])
            ba == SortCompare(sortOption, arr[j], arr[i])
            bc == SortCompare(sortOption, arr[j], arr[k])
            ac == SortCompare(sortOption, arr[i], arr[k])
        IN /\ (ab = "neg") = (ba = "pos")
           /\ (ab = "zero") = (ba = "zero")
           /\ (ab = "zero" /\ bc = "zero") => ac = "zero"
           /\ (ab = "neg" /\ bc # "pos") => ac = "neg"
           /\ (ab # "pos" /\ bc = "neg") => ac = "neg"

\* the comparator returns NaN for some pair of the elements of arr
ReturnsNaN(sortOption, arr) ==
    \E i, j \in 1..Len(arr) : Compare(sortOption, arr[i], arr[j]) = "NaN"

\* sortEntries(entriesToSort, sortOption): the arrays Array.prototype.sort can return.
\* The sort is stable.  Each comparator orders by keys unless it returns NaN; when it
\* does and so does not order the elements consistently (an Invalid Date compares
\* equal to dates that differ) the order is implementation-defined.
sortEntries(entriesToSort, sortOption) ==
    IF ~ReturnsNaN(sortOption, entriesToSort) \/ Consistent(sortOption, entriesToSort)
    THEN {StableSort(sortOption, entriesToSort)}
    ELSE PermutationsOf(entriesToSort)

\* getFilteredEntries(): threw, or the arrays it can return
getFilteredEntries(state) ==
    LET base == [threw |-> FALSE, result |-> ByViewMode(state, state.entries)]
        r == ByMood(state, ByDate(state, ByTag(state, BySearch(state, base))))
    IN IF r.threw THEN [threw |-> TRUE]
       ELSE [threw |-> FALSE,
             outcomes |-> sortEntries(r.result, state.settings.defaultSortOrder)]

\* the clock moves on while steps remain to be taken
Tick ==
    /\ now < MaxTime
    /\ steps < MaxSteps
    /\ now' = now + 1
    /\ UNCHANGED <<storeVars, pendingStreak, nextUuid, lastOp, steps>>

\* a call of a setter, counted and recorded as the calls of the other actions are
Call(op) == Taken /\ lastOp' = [op |-> op]

\* the actions on the entries, the recalculation of the streak and the clock
EntryNext ==
    \/ createEntry
    \/ createEntryWithTemplate
    \/ \E id \in ArgIds : deleteEntry(id)
    \/ \E id \in ArgIds : permanentlyDeleteEntry(id)
    \/ \E id \in ArgIds : restoreEntry(id)
    \/ emptyBin
    \/ \E id \in ArgIds, updates \in UpdateInputs : updateEntry(id, updates)
    \/ \E id \in ArgIds : toggleFavorite(id)
    \/ \E id \in ArgIds : addImageToEntry(id, "img2")
    \/ \E id \in ArgIds, imageIndex \in ImageIndexes : removeImageFromEntry(id, imageIndex)
    \/ \E id \in ArgIds, location \in {Null, HOME} : updateEntryLocation(id, location)
    \/ \E id \in ArgIds, weather \in {Null, SUNNY} : updateEntryWeather(id, weather)
    \/ calculateStreak
    \/ StreakTimeout
    \/ \E jsonData \in ImportInputs(ImportIds) : importEntries(jsonData)
    \/ \E arg \in {Null} \cup {[id |-> i] : i \in ArgIds} : setCurrentEntry(arg)
    \/ Tick

\* every function of the store that sets state
Next ==
    \/ EntryNext
    \/ \E query \in {"", "imp"} : Call("setSearchQuery") /\ setSearchQuery(query)
    \/ \E tag \in {NullString, "a"} : Call("setSelectedTag") /\ setSelectedTag(tag)
    \/ \E mood \in {NullString, "happy"} : Call("setSelectedMood") /\ setSelectedMood(mood)
    \/ \E date \in {NullDate, 0} : Call("setSelectedDate") /\ setSelectedDate(date)
    \/ \E mode \in {"all", "favorites", "deleted"} : Call("setViewMode") /\ setViewMode(mode)
    \/ \E order \in {"newest", "oldest", "alphabetical"} :
          Call("updateSettings") /\ updateSettings([defaultSortOrder |-> order])
    \/ \E state \in BOOLEAN : Call("setIsEditing") /\ setIsEditing(state)
    \/ updateTagCache

Spec == Init /\ [][Next]_vars

\* The actions on the entries alone.  They read the collection and the current entry:
\* neither the search text, the selected tag, mood and date, the view mode, the
\* settings, the editing mode nor the tag cache, which is all that the setters,
\* updateSettings and updateTagCache write.  A step of an action on the entries is so
\* the same step whatever the setters called before it.  The claims about these actions
\* that do not mention the view are checked under EntrySpec, which leaves room for one
\* more call and one more instant.
EntrySpec == Init /\ [][EntryNext]_vars

(***************************************************************************)
(* The filtered view is a function of the collection, the filter state and *)
(* the sort order.  ViewSpec draws the collection from the entries the     *)
(* store actions produce and lets the setters move the filter state, the   *)
(* sort order and the editing mode.                                        *)
(***************************************************************************)
\* an entry as createEntry leaves it at instant t
CreatedEntry(id, t) == newEntry(DEFAULT_ENTRY, id, t, t, t)
\* an entry as updateEntry leaves it at instant t
UpdatedEntry(entry, updates, t) ==
    Spread(SpreadUpdates(entry, processedUpdates(updates)), [updatedAt |-> t])
\* an entry as deleteEntry leaves it at instant t
DeletedEntry(entry, t) == Spread(entry, [isDeleted |-> TRUE, deletedAt |-> t])

TAGGED == Updates([title |-> "T", content |-> StringContent("C"), tags |-> <<"a">>,
                   mood |-> "happy", isFavorite |-> TRUE], {})
ViewEntries ==
    {CreatedEntry("u1", 0),
     UpdatedEntry(CreatedEntry("u2", 0), TAGGED, 1),
     processEntry(JsonObject(BareProps("x1"))),
     DeletedEntry(UpdatedEntry(CreatedEntry("u3", 0), TAGGED, 0), 0),
     DeletedEntry(CreatedEntry("u4", 2), 3),
     processEntry(JsonObject(FlaggedProps("x2")))}

\* the collections of at most MaxShown different entries of ViewEntries
ViewCollections ==
    {c \in UNION {[1..n -> ViewEntries] : n \in 0..MaxShown} :
        \A i, j \in 1..Len(c) : i # j => c[i] # c[j]}

ViewInit ==
    /\ entries \in ViewCollections
    /\ currentEntry = Null
    /\ isEditing = FALSE
    /\ cachedTags = Null
    /\ entriesLength = Len(entries)
    /\ streakData = DEFAULT_STREAK
    /\ searchQuery = ""
    /\ selectedTag = NullString
    /\ selectedMood = NullString
    /\ selectedDate = NullDate
    /\ viewMode = "all"
    /\ settings = DEFAULT_SETTINGS
    /\ pendingStreak = 0
    /\ now = 3
    /\ nextUuid = 5
    /\ lastOp = [op |-> "init"]
    /\ steps = 0

\* a call of a setter that is not counted
Uncounted == UNCHANGED <<lastOp, steps>>

ViewNext ==
    \/ \E query \in {"", "imp"} : Uncounted /\ setSearchQuery(query)
    \/ \E tag \in {NullString, "a"} : Uncounted /\ setSelectedTag(tag)
    \/ \E mood \in {NullString, "happy"} : Uncounted /\ setSelectedMood(mood)
    \/ \E date \in {NullDate, 0} : Uncounted /\ setSelectedDate(date)
    \/ \E mode \in {"all", "favorites", "deleted"} : Uncounted /\ setViewMode(mode)
    \/ \E order \in {"newest", "oldest", "alphabetical"} :
          Uncounted /\ updateSettings([defaultSortOrder |-> order])
    \/ \E state \in BOOLEAN : Uncounted /\ setIsEditing(state)

ViewSpec == ViewInit /\ [][ViewNext]_vars

(***************************************************************************)
(* The streak is a function of the creation days of the entries that are   *)
(* not deleted and of today.  StreakSpec draws the days that have an entry *)
(* and today, starts from the state the last recalculation left, and lets  *)
(* the actions that change which entries count, and the deferred           *)
(* recalculation, act on it.                                               *)
(***************************************************************************)
\* the entry created on calendar day d, and deleted that day when binned
DayEntry(d, binned) ==
    LET entry == CreatedEntry(Uuid(d + 1), d * TicksPerDay) IN
    IF binned THEN DeletedEntry(entry, d * TicksPerDay) ELSE entry

\* the collection createEntry builds over the days d, d - 1, ..., 0: one entry on each
\* day that has one, the newest first
RECURSIVE DayCollection(_, _)
DayCollection(has, d) ==
    IF d < 0 THEN <<>>
    ELSE (IF has[d] = "none" THEN <<>> ELSE <<DayEntry(d, has[d] = "binned")>>)
         \o DayCollection(has, d - 1)

StreakInit ==
    /\ \E today \in 0..MaxDay :
         \E has \in [0..today -> {"none", "active", "binned"}] :
            /\ entries = DayCollection(has, today)
            /\ now = today * TicksPerDay
    /\ currentEntry = Null
    /\ isEditing = FALSE
    /\ cachedTags = Null
    /\ entriesLength = Len(entries)
    /\ \E zone \in Zones :
         LET r == calculateStreakResult(entries, now, zone) IN
         streakData = IF r.threw THEN DEFAULT_STREAK ELSE r.streakData
    /\ searchQuery = ""
    /\ selectedTag = NullString
    /\ selectedMood = NullString
    /\ selectedDate = NullDate
    /\ viewMode = "all"
    /\ settings = DEFAULT_SETTINGS
    /\ pendingStreak = 0
    /\ nextUuid = MaxDay + 2
    /\ lastOp = [op |-> "init"]
    /\ steps = 0

StreakNext ==
    \/ \E id \in ArgIds : deleteEntry(id)
    \/ \E id \in ArgIds : permanentlyDeleteEntry(id)
    \/ \E id \in ArgIds : restoreEntry(id)
    \/ emptyBin
    \/ calculateStreak
    \/ StreakTimeout

StreakSpec == StreakInit /\ [][StreakNext]_vars

(***************************************************************************)
(* The deferred recalculation.  Every timer set by setTimeout(..., 0) runs *)
(* once the handler that set it has returned: the event loop does not      *)
(* leave a due timer waiting for ever.  FairSpec explores MaxSteps calls   *)
(* of the actions that set the timer and of calculateStreak itself, which  *)
(* the effect on entries of the view calls directly, and lets the timers   *)
(* that were set run, also after the last of these calls.                  *)
(***************************************************************************)
\* a pending timer runs, whatever the number of actions called before
calculateStreakDue ==
    /\ steps' = steps + 1
    /\ StreakTimer

\* an import that is rejected, one of an entry without dates, one of a binned entry
FairImports ==
    {JsonText([type |-> "object",
               props |-> [entries |-> [type |-> "array", items |-> items]]]) :
        items \in {<<>>, <<JsonObject(BareProps("x1"))>>, <<JsonObject(BinnedProps("x1"))>>}}

FairNext ==
    \/ createEntry
    \/ createEntryWithTemplate
    \/ \E id \in ArgIds : deleteEntry(id)
    \/ \E id \in ArgIds : restoreEntry(id)
    \/ \E jsonData \in FairImports : importEntries(jsonData)
    \/ calculateStreak
    \/ calculateStreakDue

FairSpec == Init /\ [][FairNext]_vars /\ WF_vars(calculateStreakDue)

(***************************************************************************)
(* The tag cache.  The sidebar calls updateTagCache from an effect that    *)
(* runs after a render in which entries.length has changed, so the call    *)
(* can come after any number of store actions.  CacheSpec lets it come at  *)
(* any point among the actions that set or remove entries and their tags.  *)
(***************************************************************************)
CacheNext ==
    \/ createEntry
    \/ createEntryWithTemplate
    \/ \E id \in ArgIds : deleteEntry(id)
    \/ \E id \in ArgIds : permanentlyDeleteEntry(id)
    \/ \E id \in ArgIds : restoreEntry(id)
    \/ emptyBin
    \/ \E id \in ArgIds, updates \in UpdateInputs : updateEntry(id, updates)
    \/ \E jsonData \in FairImports : importEntries(jsonData)
    \/ updateTagCache
    \/ calculateStreak
    \/ StreakTimeout

CacheSpec == Init /\ [][CacheNext]_vars

(***************************************************************************)
(* The claims.  A step of a store action is recognised by the step counter *)
(* and the action recorded in lastOp.  The claims about the actions on the *)
(* entries are checked under Spec and EntrySpec.                           *)
(***************************************************************************)
Step(op) == steps' = steps + 1 /\ lastOp'.op = op

\* the first entry of a collection that is not deleted, Null when there is none
FirstNonDeleted(es) ==
    IF \E i \in 1..Len(es) : ~IsDeleted(es[i])
    THEN es[CHOOSE i \in 1..Len(es) :
                /\ ~IsDeleted(es[i])
                /\ \A j \in 1..(i - 1) : IsDeleted(es[j])]
    ELSE Null

\* the entries that are not deleted, in collection order
RECURSIVE NonDeletedOf(_)
NonDeletedOf(es) ==
    IF Len(es) = 0 THEN <<>>
    ELSE IF Has(Head(es), "isDeleted") /\ Head(es).isDeleted = TRUE
         THEN NonDeletedOf(Tail(es))
         ELSE <<Head(es)>> \o NonDeletedOf(Tail(es))

\* the entries whose id is not id, in collection order
RECURSIVE OthersOf(_, _)
OthersOf(es, id) ==
    IF Len(es) = 0 THEN <<>>
    ELSE IF Head(es).id = id THEN OthersOf(Tail(es), id)
         ELSE <<Head(es)>> \o OthersOf(Tail(es), id)

\* the properties the current entry shares with its collection entry
SyncedFields == {"title", "content", "tags", "mood", "isFavorite", "images", "location",
                 "weather", "isDeleted", "deletedAt"}
SameField(a, b, k) == (Has(a, k) <=> Has(b, k)) /\ (Has(a, k) /\ Has(b, k) => a[k] = b[k])

\* C1: createEntry and createEntryWithTemplate add exactly one entry, whose id is the
\* id of no entry already in the collection, at index 0; the entries already present
\* follow in their previous order.
C1_CreatePrepends ==
    [][(Step("createEntry") \/ Step("createEntryWithTemplate")) =>
          /\ Len(entries') = Len(entries) + 1
          /\ entries'[1].id \notin IdsOf(entries)
          /\ Tail(entries') = entries]_vars

C1_Witness ==
    /\ lastOp.op \in {"createEntry", "createEntryWithTemplate"}
    /\ Len(entries) >= 2
    /\ entries[1].id = lastOp.id
    /\ \A i \in 2..Len(entries) : entries[i].id # lastOp.id

\* C2: no two entries of the collection have the same id, in every state reachable by
\* create, update, softDelete, restore, purge, emptyBin and import.
C2_UniqueIds ==
    \A i, j \in 1..Len(entries) : i # j => entries[i].id # entries[j].id

\* C3: when currentEntry is not null, every collection entry with its id has the same
\* title, content, tags, mood, isFavorite, images, location, weather, isDeleted and
\* deletedAt as currentEntry.
C3_CurrentInSync ==
    currentEntry # Null =>
        \A i \in 1..Len(entries) :
            entries[i].id = currentEntry.id =>
                \A k \in SyncedFields : SameField(entries[i], currentEntry, k)

\* C4: for every entry of the collection, deletedAt is present if and only if
\* isDeleted is true.
C4_DeletedAtIffDeleted ==
    \A i \in 1..Len(entries) :
        Has(entries[i], "deletedAt") <=> (Has(entries[i], "isDeleted") /\ entries[i].isDeleted)

\* C5: deleteEntry(id) on the current entry makes currentEntry the first entry, in
\* collection order, that is not deleted once the delete is applied, or null when
\* there is none; deleteEntry(id) of another entry leaves currentEntry unchanged.
C5_DeleteMovesCurrent ==
    [][Step("deleteEntry") =>
          IF currentEntry # Null /\ currentEntry.id = lastOp'.id
          THEN currentEntry' = FirstNonDeleted(entries')
          ELSE currentEntry' = currentEntry]_vars

C5_Witness ==
    /\ lastOp.op = "deleteEntry"
    /\ lastOp.wasCurrent
    /\ currentEntry # Null
    /\ currentEntry.id # lastOp.id
    /\ \E i \in 1..Len(entries) : entries[i].id = lastOp.id /\ IsDeleted(entries[i])

\* C6: permanentlyDeleteEntry(id) removes every entry with that id and leaves the other
\* entries and their order unchanged; restoreEntry, deleteEntry and emptyBin never add
\* an entry, so a purged entry does not come back through them; when the purged entry
\* was current, currentEntry becomes a deleted entry still in the collection when there
\* is one, and null otherwise; purging another entry leaves currentEntry unchanged.
C6_PurgeRemoves ==
    [][/\ Step("permanentlyDeleteEntry") =>
            /\ entries' = OthersOf(entries, lastOp'.id)
            /\ IF currentEntry # Null /\ currentEntry.id = lastOp'.id
               THEN IF \E i \in 1..Len(entries') : IsDeleted(entries'[i])
                    THEN \E i \in 1..Len(entries') :
                            /\ currentEntry' = entries'[i]
                            /\ IsDeleted(entries'[i])
                    ELSE currentEntry' = Null
               ELSE currentEntry' = currentEntry
       /\ (Step("restoreEntry") \/ Step("deleteEntry") \/ Step("emptyBin")) =>
            /\ IdsOf(entries') \subseteq IdsOf(entries)
            /\ Len(entries') <= Len(entries)]_vars

C6_Witness ==
    /\ lastOp.op = "permanentlyDeleteEntry"
    /\ lastOp.wasCurrent
    /\ lastOp.found
    /\ lastOp.id \notin IdsOf(entries)
    /\ currentEntry # Null
    /\ IsDeleted(currentEntry)
    /\ \E i \in 1..Len(entries) : entries[i] = currentEntry

\* C7: after emptyBin the collection holds exactly the entries that were not deleted
\* before the call, unchanged and in their previous order, and no deleted entry remains.
C7_EmptyBinKeepsActive ==
    [][Step("emptyBin") =>
          /\ entries' = NonDeletedOf(entries)
          /\ \A i \in 1..Len(entries') :
                ~(Has(entries'[i], "isDeleted") /\ entries'[i].isDeleted)]_vars

C7_Witness ==
    /\ lastOp.op = "emptyBin"
    /\ lastOp.purged
    /\ Len(entries) >= 1
    /\ \A i \in 1..Len(entries) : ~IsDeleted(entries[i])

\* the collection entry with the id of the current entry is in the bin
CurrentInBin ==
    /\ currentEntry # Null
    /\ \E i \in 1..Len(entries) : entries[i].id = currentEntry.id /\ IsDeleted(entries[i])

\* C8: emptyBin changes currentEntry exactly when the collection entry with the current
\* id is deleted: then currentEntry becomes the first remaining entry, or null when none
\* remains; otherwise emptyBin leaves currentEntry unchanged.
C8_EmptyBinCurrent ==
    LET after == Spread(Store, emptyBinSet(Store)) IN
    IF CurrentInBin
    THEN after.currentEntry = (IF Len(after.entries) > 0 THEN after.entries[1] ELSE Null)
    ELSE after.currentEntry = currentEntry

\* C9: restoreEntry(id), whether the entry was deleted or not, leaves every entry with
\* that id not deleted and without deletedAt, and a second restoreEntry(id) right after
\* it changes nothing more.
C9_RestoreIdempotent ==
    [][Step("restoreEntry") =>
          LET id == lastOp'.id
              twice == Spread(Store', restoreEntrySet(Store', id))
          IN /\ twice = Store'
             /\ \A i \in 1..Len(entries') :
                   entries'[i].id = id =>
                       /\ Has(entries'[i], "isDeleted")
                       /\ entries'[i].isDeleted = FALSE
                       /\ ~Has(entries'[i], "deletedAt")]_vars

C9_Witness ==
    /\ lastOp.op = "restoreEntry"
    /\ lastOp.wasDeleted
    /\ \E i \in 1..Len(entries) : entries[i].id = lastOp.id
    /\ \A i \in 1..Len(entries) :
          entries[i].id = lastOp.id =>
              ~IsDeleted(entries[i]) /\ ~Has(entries[i], "deletedAt")

\* the inputs importEntries is to reject: text that is not JSON, no top-level entries
\* key, an entries value that is not an array, no element that passes validation
Rejected(jsonData) ==
    \/ jsonData.parse = "error"
    \/ jsonData.value.type # "object"
    \/ "entries" \notin DOMAIN jsonData.value.props
    \/ jsonData.value.props.entries.type # "array"
    \/ \A i \in 1..Len(jsonData.value.props.entries.items) :
          LET e == jsonData.value.props.entries.items[i] IN
          ~(e.type = "object" /\ {"id", "title", "content"} \subseteq DOMAIN e.props
            /\ e.numeric \cap {"id", "title", "content"} = {})

\* C10: importEntries returns false and changes nothing (entries, currentEntry, cache,
\* streakData; no recalculation is scheduled) when the input is not JSON, has no
\* top-level entries key, has an entries value that is not an array, or has no element
\* that passes validation.
C10_ImportFailsClosed ==
    [][Step("importEntries") =>
          LET jsonData == lastOp'.jsonData IN
              Rejected(jsonData) =>
                  /\ lastOp'.result = FALSE
                  /\ UNCHANGED <<storeVars, pendingStreak>>]_vars

C10_Witness ==
    /\ lastOp.op = "importEntries"
    /\ lastOp.result = FALSE
    /\ lastOp.elements > 0
    /\ Len(entries) > 0
    /\ currentEntry # Null

\* the elements of a parsed array that are objects with string id, title and content,
\* in their order in the array
RECURSIVE ValidItemsOf(_)
ValidItemsOf(items) ==
    IF Len(items) = 0 THEN <<>>
    ELSE LET e == Head(items) IN
         IF /\ e.type = "object"
            /\ {"id", "title", "content"} \subseteq DOMAIN e.props
            /\ e.numeric \cap {"id", "title", "content"} = {}
         THEN <<e>> \o ValidItemsOf(Tail(items))
         ELSE ValidItemsOf(Tail(items))

\* the properties of an imported entry that are not dates
PlainProps(props) == DOMAIN props \ {"createdAt", "updatedAt", "deletedAt"}

\* C11: when at least one element of the imported entries array has string id, title
\* and content, importEntries returns true and the new collection is the valid
\* imported entries, in their input order and without the invalid ones, followed by
\* all previously existing entries unchanged and in their previous order;
\* currentEntry, settings and the filter state are unchanged.
C11_ImportPrepends ==
    [][Step("importEntries") =>
          LET jsonData == lastOp'.jsonData IN
              ~Rejected(jsonData) =>
                  LET valid == ValidItemsOf(jsonData.value.props.entries.items)
                      n == Len(valid)
                  IN /\ lastOp'.result = TRUE
                     /\ Len(entries') = n + Len(entries)
                     /\ \A k \in 1..n :
                           \A key \in PlainProps(valid[k].props) :
                               /\ Has(entries'[k], key)
                               /\ entries'[k][key] = valid[k].props[key]
                     /\ \A k \in 1..Len(entries) : entries'[n + k] = entries[k]
                     /\ UNCHANGED <<currentEntry, settings, filterVars>>]_vars

\* the properties of an entry that a round trip is to preserve
RoundTripFields == {"id", "title", "content", "tags", "mood", "isFavorite", "images",
                    "isDeleted", "createdAt", "updatedAt", "deletedAt"}

\* C12: for every reachable collection that is not empty (soft-deleted entries included),
\* exporting it and importing the exported text into an empty store succeeds and yields
\* a collection with the same ids in the same order and, per entry, the same title,
\* content, tags, mood, isFavorite, images, isDeleted, createdAt, updatedAt and deletedAt.
C12_RoundTrip ==
    Len(entries) > 0 =>
        LET r == importEntriesResult(Spread(Store, [entries |-> <<>>]), exportEntries(Store))
        IN /\ r.ok
           /\ Len(r.set.entries) = Len(entries)
           /\ \A i \in 1..Len(entries) :
                 \A k \in RoundTripFields : SameField(r.set.entries[i], entries[i], k)

C11_Witness ==
    /\ lastOp.op = "importEntries"
    /\ lastOp.result = TRUE
    /\ lastOp.elements = 3
    /\ Len(entries) >= 3
    /\ entries[1].id = "x1"
    /\ ~IsDeleted(entries[1])
    /\ entries[2].id = "x1"
    /\ IsDeleted(entries[2])
    /\ entries[3].id \in UuidIds
    /\ currentEntry # Null

\* the index is not a position of the image list of the entry removeImageFromEntry finds
OutOfRange(id, imageIndex) ==
    LET entry == FindSeq(entries, LAMBDA e : e.id = id) IN
    /\ entry # Null
    /\ Has(entry, "images")
    /\ (imageIndex < 0 \/ imageIndex >= Len(entry.images))

\* C13: removeImageFromEntry(id, index) with an index that is not a valid position of
\* the entry's image list (index < 0 or index >= length) does not throw and leaves the
\* image list of the entry, and of the current-entry copy of it, as it was.
C13_RemoveOutOfRange ==
    [][Step("removeImageFromEntry") =>
          \A id \in ArgIds, imageIndex \in ImageIndexes :
              (OutOfRange(id, imageIndex) /\ removeImageFromEntry(id, imageIndex)) =>
                  /\ ~lastOp'.threw
                  /\ Len(entries') = Len(entries)
                  /\ \A i \in 1..Len(entries) :
                        entries[i].id = id => SameField(entries'[i], entries[i], "images")
                  /\ IsCurrent(id) =>
                        /\ currentEntry' # Null
                        /\ SameField(currentEntry', currentEntry, "images")]_vars

\* C14: when updateEntry is given a content value that cannot be serialized to a string,
\* the stored content of the entry after the call equals its stored content before the
\* call, and the other fields of the update still apply; when the content can be
\* serialized, the stored content is a string.
C14_ContentFallback ==
    [][Step("updateEntry") =>
          LET id == lastOp'.id
              updates == lastOp'.updates
          IN Has(updates.props, "content") =>
                  \A i \in 1..Len(entries) :
                      entries[i].id = id =>
                          /\ \A k \in DOMAIN updates.props \ {"content"} :
                                Has(entries'[i], k) /\ entries'[i][k] = updates.props[k]
                          /\ IF updates.props.content.type = "circular"
                             THEN SameField(entries'[i], entries[i], "content")
                             ELSE entries'[i].content \in STRING]_vars

\* C15: toggleFavorite(id) negates isFavorite of the entry with that id (and of
\* currentEntry when it has that id) and changes nothing else: updatedAt of the entry,
\* all other entries, cachedTags and entriesLength are unchanged; two consecutive
\* toggleFavorite(id) calls restore the previous state.
C15_ToggleFavorite ==
    \A id \in ArgIds :
        LET once == Spread(Store, toggleFavoriteSet(Store, id))
            twice == Spread(once, toggleFavoriteSet(once, id))
        IN /\ Len(once.entries) = Len(entries)
           /\ \A i \in 1..Len(entries) :
                 IF entries[i].id = id
                 THEN /\ once.entries[i] = Spread(entries[i], [isFavorite |-> ~IsFavorite(entries[i])])
                      /\ once.entries[i].updatedAt = entries[i].updatedAt
                 ELSE once.entries[i] = entries[i]
           /\ IF IsCurrent(id)
              THEN once.currentEntry =
                       Spread(currentEntry, [isFavorite |-> ~IsFavorite(currentEntry)])
              ELSE once.currentEntry = currentEntry
           /\ once.cachedTags = cachedTags
           /\ once.entriesLength = entriesLength
           /\ twice = Store

\* C16: in every reachable state getAllTags() returns, without duplicates, exactly the
\* tags that occur on at least one entry that is not deleted: every tag of every such
\* entry is included and a tag found only on deleted entries is excluded.
C16_AllTags ==
    LET r == getAllTags(Store)
        live == {i \in 1..Len(entries) :
                    ~(Has(entries[i], "isDeleted") /\ entries[i].isDeleted = TRUE)}
    IN /\ ~r.threw
       /\ \A i, j \in 1..Len(r.tags) : i # j => r.tags[i] # r.tags[j]
       /\ {r.tags[i] : i \in 1..Len(r.tags)} =
             UNION {{entries[i].tags[k] : k \in 1..Len(entries[i].tags)} : i \in live}

(***************************************************************************)
(* The claims about the filtered view, checked under ViewSpec.             *)
(***************************************************************************)
\* no search text and no tag, date or mood selected
NoFilters ==
    /\ searchQuery = ""
    /\ selectedTag = NullString
    /\ selectedDate = NullDate
    /\ selectedMood = NullString

\* the number of times e occurs in an array
Count(arr, e) == Cardinality({i \in 1..Len(arr) : arr[i] = e})

\* the array holds each entry of the collection that satisfies Q as often as the
\* collection does, and nothing else
HoldsExactly(arr, Q(_)) ==
    /\ Len(arr) = Cardinality({i \in 1..Len(entries) : Q(entries[i])})
    /\ \A i \in 1..Len(entries) :
          Count(arr, entries[i]) = IF Q(entries[i]) THEN Count(entries, entries[i]) ELSE 0

NotDeleted(e) == ~(Has(e, "isDeleted") /\ e.isDeleted = TRUE)
Favorite(e) == Has(e, "isFavorite") /\ e.isFavorite = TRUE

\* the entries the view mode is to show
InBaseSet(e) ==
    IF viewMode = "favorites" THEN Favorite(e) /\ NotDeleted(e)
    ELSE IF viewMode = "deleted" THEN ~NotDeleted(e)
    ELSE NotDeleted(e)

\* C17: with no search text and no tag, date or mood selected, the filtered view
\* contains exactly: in view mode all, the entries that are not deleted; in view mode
\* favorites, the favorite entries that are not deleted; in view mode deleted, the
\* deleted entries.  Each qualifying entry appears exactly once and no other appears.
C17_BaseView ==
    NoFilters =>
        LET view == getFilteredEntries(Store) IN
        /\ ~view.threw
        /\ \A shown \in view.outcomes : HoldsExactly(shown, InBaseSet)

C17_Witness ==
    /\ NoFilters
    /\ viewMode = "favorites"
    /\ \E i \in 1..Len(entries) : IsFavorite(entries[i]) /\ IsDeleted(entries[i])
    /\ \E i \in 1..Len(entries) : ~IsFavorite(entries[i]) /\ ~IsDeleted(entries[i])
    /\ \E shown \in getFilteredEntries(Store).outcomes :
          Len(shown) = 1 /\ IsFavorite(shown[1]) /\ ~IsDeleted(shown[1])

\* the tag list of the entry contains the selected tag
HasSelectedTag(e) ==
    Has(e, "tags") /\ \E k \in 1..Len(e.tags) : e.tags[k] = selectedTag

\* C18: in view mode all or favorites with a tag selected (no search text, date or
\* mood), the filtered view contains exactly the entries of the base set of the view
\* mode whose tag list contains the selected tag.
C18_TagView ==
    (/\ viewMode \in {"all", "favorites"}
     /\ selectedTag # NullString
     /\ searchQuery = ""
     /\ selectedDate = NullDate
     /\ selectedMood = NullString) =>
        LET view == getFilteredEntries(Store) IN
        /\ ~view.threw
        /\ \A shown \in view.outcomes :
              HoldsExactly(shown, LAMBDA e : InBaseSet(e) /\ HasSelectedTag(e))

\* the state with no tag, date or mood selected
FiltersCleared ==
    Spread(Store, [selectedTag |-> NullString, selectedDate |-> NullDate,
                   selectedMood |-> NullString])

\* C19: in view mode deleted the filtered view is independent of selectedTag,
\* selectedDate and selectedMood: for any values of these three filters the result
\* equals the result with all three cleared, and with no search text it is the set of
\* all deleted entries.
C19_BinViewIgnoresFilters ==
    viewMode = "deleted" =>
        LET view == getFilteredEntries(Store) IN
        /\ view = getFilteredEntries(FiltersCleared)
        /\ searchQuery = "" =>
              /\ ~view.threw
              /\ \A shown \in view.outcomes : HoldsExactly(shown, LAMBDA e : ~NotDeleted(e))

C19_Witness ==
    /\ viewMode = "deleted"
    /\ selectedTag = "a"
    /\ selectedMood = "happy"
    /\ selectedDate = 0
    /\ searchQuery = ""
    /\ \E shown \in getFilteredEntries(Store).outcomes :
          /\ Len(shown) >= 2
          /\ \E i \in 1..Len(shown) :
                /\ ~HasSelectedTag(shown[i])
                /\ ~Has(shown[i], "mood")
                /\ ~SameDay(shown[i].createdAt, selectedDate)

\* no element of the array is followed by one with a later date k
NonIncreasing(arr, k) ==
    \A i, j \in 1..Len(arr) :
        (/\ i < j
         /\ Has(arr[i], k) /\ arr[i][k] # InvalidDate
         /\ Has(arr[j], k) /\ arr[j][k] # InvalidDate) => arr[i][k] >= arr[j][k]

\* C20: with sort order newest, the filtered view is ordered by non-increasing
\* updatedAt in view modes all and favorites and by non-increasing deletedAt in view
\* mode deleted; when a sorted set contains both deleted and non-deleted entries,
\* every non-deleted entry precedes every deleted entry.
C20_NewestFirst ==
    settings.defaultSortOrder = "newest" =>
        LET view == getFilteredEntries(Store) IN
        /\ ~view.threw =>
              \A shown \in view.outcomes :
                  NonIncreasing(shown, IF viewMode = "deleted" THEN "deletedAt"
                                       ELSE "updatedAt")
        /\ \A sorted \in sortEntries(entries, "newest") :
              \A i, j \in 1..Len(sorted) :
                  (~NotDeleted(sorted[i]) /\ NotDeleted(sorted[j])) => j < i

(***************************************************************************)
(* The view after the actions on the entries, checked under Spec, where    *)
(* the setters change the filter state between the actions.                *)
(***************************************************************************)
\* the filtered view of a state in a view mode
ShownIn(state, mode) == getFilteredEntries([state EXCEPT !.viewMode = mode])

\* the entry is in every array the view can return
Visible(view, e) ==
    /\ ~view.threw
    /\ \A shown \in view.outcomes : \E k \in 1..Len(shown) : shown[k] = e

\* the entry is in no array the view can return
Hidden(view, e) ==
    /\ ~view.threw
    /\ \A shown \in view.outcomes : \A k \in 1..Len(shown) : shown[k] # e

\* the view of the state after deleteEntry(lastOp.id) on the collection before
DeletedViewOf(before, after) ==
    /\ Len(after.entries) = Len(before)
    /\ \A i \in 1..Len(before) :
          before[i].id = lastOp'.id =>
              /\ after.entries[i].id = before[i].id
              /\ Hidden(ShownIn(after, "all"), after.entries[i])
              /\ Hidden(ShownIn(after, "favorites"), after.entries[i])
              /\ Visible(ShownIn(after, "deleted"), after.entries[i])

\* the view of the state after restoreEntry(lastOp.id) on the collection before
RestoredViewOf(before, after) ==
    /\ Len(after.entries) = Len(before)
    /\ \A i \in 1..Len(before) :
          before[i].id = lastOp'.id =>
              /\ after.entries[i].id = before[i].id
              /\ Visible(ShownIn(after, "all"), after.entries[i])
              /\ IF Has(after.entries[i], "isFavorite") /\ after.entries[i].isFavorite = TRUE
                 THEN Visible(ShownIn(after, "favorites"), after.entries[i])
                 ELSE Hidden(ShownIn(after, "favorites"), after.entries[i])
              /\ Hidden(ShownIn(after, "deleted"), after.entries[i])

\* C21 as stated, whatever the filter state: after deleteEntry(id) the entry is
\* absent from the filtered view in view modes all and favorites and present in view
\* mode deleted; after a restoreEntry(id) it is present in view mode all (and in
\* favorites if it is a favorite) and absent from view mode deleted; in both cases the
\* entry stays in the collection.  The search text is applied in every view mode, and
\* the selected tag, date and mood in the view modes all and favorites, so the entry
\* that was deleted or restored can be missing from the view where it is expected.
C21_DeleteRestoreView ==
    [][/\ Step("deleteEntry") => DeletedViewOf(entries, Store')
       /\ Step("restoreEntry") => RestoredViewOf(entries, Store')]_vars

\* C21, with no search text and no tag, date or mood selected: after deleteEntry(id)
\* the entry is absent from the filtered view in view modes all and favorites and
\* present in view mode deleted; after a restoreEntry(id) it is present in view mode
\* all (and in favorites if it is a favorite) and absent from view mode deleted; in
\* both cases the entry stays in the collection, whatever the sort order and the
\* view mode in force.
C21_DeleteRestoreViewUnfiltered ==
    [][/\ (Step("deleteEntry") /\ NoFilters') => DeletedViewOf(entries, Store')
       /\ (Step("restoreEntry") /\ NoFilters') => RestoredViewOf(entries, Store')]_vars

C21_Witness ==
    /\ lastOp.op = "restoreEntry"
    /\ lastOp.wasDeleted
    /\ lastOp.id \in UuidIds
    /\ NoFilters
    /\ \E i \in 1..Len(entries) :
          /\ entries[i].id = lastOp.id
          /\ Visible(ShownIn(Store, "all"), entries[i])
          /\ Hidden(ShownIn(Store, "deleted"), entries[i])

(***************************************************************************)
(* The claims about the streak, checked under StreakSpec.                  *)
(***************************************************************************)
\* C22: calculateStreak run when the collection has no entry that is not deleted (it is
\* empty, or all its entries are soft-deleted) sets streakData to currentStreak = 0,
\* longestStreak = 0, lastEntryDate = null.
C22_NoActiveEntry ==
    [][(Step("calculateStreak") /\ \A i \in 1..Len(entries) : ~NotDeleted(entries[i])) =>
          /\ ~lastOp'.threw
          /\ streakData' = [currentStreak |-> 0, longestStreak |-> 0,
                            lastEntryDate |-> NullDate]]_vars

C22_Witness ==
    /\ lastOp.op = "calculateStreak"
    /\ ~lastOp.threw
    /\ Len(entries) > 0
    /\ \A i \in 1..Len(entries) : ~NotDeleted(entries[i])
    /\ pendingStreak = 0
    /\ streakData = [currentStreak |-> 0, longestStreak |-> 0, lastEntryDate |-> NullDate]

\* the calendar days on which an entry that is not deleted was created
ActiveDays(es) == {DayOf(es[i].createdAt) : i \in {j \in 1..Len(es) : NotDeleted(es[j])}}

\* the days d - n + 1, ..., d are all in the set
RunEndingAt(days, d, n) == \A k \in 0..(n - 1) : d - k \in days

\* the length of the longest run of consecutive days of the set that ends at day d
RunLength(days, d) ==
    CHOOSE n \in 0..Cardinality(days) :
        /\ RunEndingAt(days, d, n)
        /\ ~RunEndingAt(days, d, n + 1)

\* the latest day of a set of days that is not empty
LastDay(days) == CHOOSE d \in days : \A other \in days : other <= d

\* C23: calculateStreak sets currentStreak to 0 when the creation day of the most
\* recent entry that is not deleted is more than one calendar day before today, and
\* otherwise to the length of the maximal run of consecutive calendar days that ends at
\* that most recent day and in which every day has an entry that is not deleted.
C23_CurrentStreak ==
    [][(Step("calculateStreak") /\ ActiveDays(entries) # {}) =>
          LET days == ActiveDays(entries)
              last == LastDay(days)
          IN /\ ~lastOp'.threw
             /\ streakData'.currentStreak =
                   IF DayOf(now) - last > 1 THEN 0 ELSE RunLength(days, last)]_vars

\* the length of the longest run of consecutive days of a set of days
LongestRun(days) ==
    CHOOSE n \in 0..Cardinality(days) :
        /\ \E d \in days : RunLength(days, d) = n
        /\ \A d \in days : RunLength(days, d) <= n

\* C24: calculateStreak sets longestStreak to the length of the longest run of
\* consecutive calendar days among the distinct creation days of the entries that are
\* not deleted, also when the longest run is the last one in ascending order.
C24_LongestStreak ==
    [][(Step("calculateStreak") /\ ActiveDays(entries) # {}) =>
          /\ ~lastOp'.threw
          /\ streakData'.longestStreak = LongestRun(ActiveDays(entries))]_vars

\* C25: streakData.longestStreak is the longest streak ever observed: across the store
\* actions and recalculations (deleteEntry and permanentlyDeleteEntry included) its
\* value never decreases from one recalculation to the next.
C25_LongestNeverDecreases ==
    [][Step("calculateStreak") =>
          streakData'.longestStreak >= streakData.longestStreak]_vars

(***************************************************************************)
(* The claims about the deferred recalculation, checked under FairSpec.    *)
(***************************************************************************)
\* the last action called was one that sets the timer
Triggered ==
    \/ lastOp.op \in {"createEntry", "createEntryWithTemplate", "deleteEntry", "restoreEntry"}
    \/ lastOp.op = "importEntries" /\ lastOp.result

\* some entry of the collection that is not deleted has no valid creation date
NoCreationDay(es) ==
    \E i \in 1..Len(es) : NotDeleted(es[i]) /\ es[i].createdAt = InvalidDate

\* C26: every createEntry, deleteEntry, restoreEntry and successful importEntries sets
\* one timer and leaves streakData to it; a timer leaves the queue only by running
\* calculateStreak, and, the timers being run fairly, every timer set runs; every run of
\* calculateStreak reads the collection as it is when the run happens, with the mutation
\* that set the timer committed, never the collection from before it.
C26_RecalculationFollows ==
    /\ [][/\ (steps' = steps + 1 /\ Triggered') =>
                 (pendingStreak' = pendingStreak + 1 /\ streakData' = streakData)
          /\ pendingStreak' < pendingStreak =>
                 (pendingStreak' = pendingStreak - 1 /\ lastOp'.op = "calculateStreak")
          /\ lastOp'.op = "calculateStreak" /\ steps' = steps + 1 =>
                 /\ entries' = entries
                 /\ lastOp'.threw = NoCreationDay(entries')
                 /\ \E zone \in Zones :
                       LET r == calculateStreakResult(entries', now', zone) IN
                       /\ r.threw = lastOp'.threw
                       /\ streakData' = IF r.threw THEN streakData ELSE r.streakData]_vars
    /\ (Triggered ~> (lastOp.op = "calculateStreak"))
    /\ <>[](pendingStreak = 0)

C26_Witness ==
    /\ lastOp.op = "calculateStreak"
    /\ ~lastOp.threw
    /\ pendingStreak = 0
    /\ steps > MaxSteps
    /\ Len(entries) = 2
    /\ ~NotDeleted(entries[2])
    /\ streakData.currentStreak = 1

\* C27: permanentlyDeleteEntry(id), for every entry it can be applied to, and emptyBin
\* never change the streak values calculateStreak would compute from the collection: a
\* recalculation right before the call and one right after give the same result, so
\* leaving out the recalculation after them never leaves streakData stale.
C27_PurgeKeepsStreak ==
    \A zone \in Zones :
        /\ \A id \in ArgIds :
              calculateStreakResult(permanentlyDeleteEntrySet(Store, id).entries, now, zone)
                  = calculateStreakResult(entries, now, zone)
        /\ calculateStreakResult(emptyBinSet(Store).entries, now, zone)
              = calculateStreakResult(entries, now, zone)

\* C28: a reload keeps entries, settings and streakData equal to their values at the
\* last state change and resets every transient field to its default: currentEntry
\* null, searchQuery empty, selectedTag, selectedMood and selectedDate null, isEditing
\* false, cachedTags null, viewMode all.
C28_Reload ==
    LET after == Rehydrated(Store) IN
    /\ after.entries = entries
    /\ after.settings = settings
    /\ after.streakData = streakData
    /\ after.currentEntry = Null
    /\ after.searchQuery = ""
    /\ after.selectedTag = NullString
    /\ after.selectedMood = NullString
    /\ after.selectedDate = NullDate
    /\ after.isEditing = FALSE
    /\ after.cachedTags = Null
    /\ after.viewMode = "all"

\* C29: after createEntry or createEntryWithTemplate, currentEntry is the newly created
\* entry and isEditing is true, whatever currentEntry, isEditing and viewMode were
\* before; the new entry has isFavorite = false, no images, isDeleted = false, no
\* deletedAt, and createdAt equal to updatedAt.
C29_CreateSelects ==
    [][(Step("createEntry") \/ Step("createEntryWithTemplate")) =>
          LET created == entries'[1] IN
          /\ created.id = lastOp'.id
          /\ currentEntry' = created
          /\ isEditing' = TRUE
          /\ created.isFavorite = FALSE
          /\ created.images = <<>>
          /\ created.isDeleted = FALSE
          /\ ~Has(created, "deletedAt")
          /\ created.createdAt = created.updatedAt]_vars

\* the fields updateEntry is given values for
UpdateFields == {"title", "content", "tags", "mood", "isFavorite", "images", "location",
                 "weather"}

\* every property an entry can have
EntryFields == UpdateFields \cup {"id", "createdAt", "updatedAt", "isDeleted", "deletedAt"}

\* the fields an updates object names: those it gives a value and those it gives
\* undefined
Named(updates) == DOMAIN updates.props \cup updates.undefined

\* C30: updateEntry(id, fields) with fields among title, content, tags, mood,
\* isFavorite, images, location and weather sets exactly those fields to what it is
\* given for them (a content that has a value in its string form, a field given
\* undefined to undefined) and refreshes updatedAt, to an instant read during the
\* call, on the entry with that id; the id, createdAt, isDeleted and deletedAt of the
\* entry, every other entry, and the length and order of the collection are unchanged;
\* with an id not in the collection the collection is unchanged.
C30_UpdateFrame ==
    [][Step("updateEntry") =>
          LET id == lastOp'.id
              updates == lastOp'.updates
          IN Named(updates) \subseteq UpdateFields =>
                  /\ Len(entries') = Len(entries)
                  /\ \A i \in 1..Len(entries) :
                        IF entries[i].id = id
                        THEN /\ \A k \in DOMAIN updates.props \ {"content"} :
                                   Has(entries'[i], k) /\ entries'[i][k] = updates.props[k]
                             /\ \A k \in updates.undefined : ~Has(entries'[i], k)
                             /\ Has(updates.props, "content") =>
                                   /\ entries'[i].content \in STRING
                                   /\ updates.props.content.type = "string" =>
                                         entries'[i].content = updates.props.content.value
                             /\ entries'[i].updatedAt \in now..now'
                             /\ \A k \in EntryFields \ (Named(updates) \cup {"updatedAt"}) :
                                   SameField(entries'[i], entries[i], k)
                             /\ DOMAIN entries'[i] \subseteq EntryFields
                        ELSE entries'[i] = entries[i]
                  /\ id \notin IdsOf(entries) => entries' = entries]_vars

C30_Witness ==
    /\ lastOp.op = "updateEntry"
    /\ lastOp.updates.undefined = {"mood", "location", "weather"}
    /\ Len(entries) >= 2
    /\ \E i, j \in 1..Len(entries) :
          /\ entries[i].id = lastOp.id
          /\ entries[i].title = "T"
          /\ \A k \in lastOp.updates.undefined : ~Has(entries[i], k)
          /\ entries[i].updatedAt = now
          /\ Has(entries[i], "tags") /\ entries[i].tags = <<"a">>
          /\ entries[j].id # lastOp.id

\* the instants of the calendar days that have an entry that is not deleted
CountedInstants(es) ==
    {d * TicksPerDay + k : d \in ActiveDays(es), k \in 0..(TicksPerDay - 1)}

\* the collection after createEntry at instant t
WithCreated(t) == createEntrySet(Store, CreatedEntry(Uuid(nextUuid), t)).entries

\* the reads of the clock of deleteEntry(id) when the clock stands still
ReadsNow(id) == [i \in 1..ReadNo(entries, id, Len(entries)) |-> now]

\* the collection after deleteEntry(id) and then restoreEntry(id)
DeletedAndRestored(id) ==
    restoreEntrySet(Spread(Store, deleteEntrySet(Store, id, ReadsNow(id))), id).entries

\* the collection after deleteEntry(id) alone
DeletedEntryOnly(id) == deleteEntrySet(Store, id, ReadsNow(id)).entries

RemoveAt(arr, imageIndex) ==
    [k \in 1..(Len(arr) - 1) |-> IF k <= imageIndex THEN arr[k] ELSE arr[k + 1]]

\* the entry after has the image list given, a refreshed updatedAt, and every other
\* field of the entry before
ImagesSet(after, before, images) ==
    /\ Has(after, "images") /\ after.images = images
    /\ after.updatedAt \in now..now'
    /\ \A k \in EntryFields \ {"images", "updatedAt"} : SameField(after, before, k)

\* C33: addImageToEntry(id, uri) makes the image list of the entry the list before with
\* uri appended; removeImageFromEntry(id, i) with 0 <= i < length makes it the list
\* before without the element at position i; both refresh updatedAt and apply the same
\* change to currentEntry when it has that id; with an id not in the collection neither
\* changes the collection.
C33_ImageLists ==
    [][/\ Step("addImageToEntry") =>
             \A id \in ArgIds :
                 addImageToEntry(id, "img2") =>
                     /\ ~lastOp'.threw
                     /\ Len(entries') = Len(entries)
                     /\ \A i \in 1..Len(entries) :
                           IF entries[i].id = id
                           THEN /\ Has(entries[i], "images")
                                /\ ImagesSet(entries'[i], entries[i],
                                             entries[i].images \o <<"img2">>)
                           ELSE entries'[i] = entries[i]
                     /\ IF IsCurrent(id)
                        THEN /\ Has(currentEntry, "images")
                             /\ ImagesSet(currentEntry', currentEntry,
                                          currentEntry.images \o <<"img2">>)
                        ELSE currentEntry' = currentEntry
       /\ Step("removeImageFromEntry") =>
             \A id \in ArgIds, imageIndex \in ImageIndexes :
                 removeImageFromEntry(id, imageIndex) =>
                     /\ ~lastOp'.threw
                     /\ Len(entries') = Len(entries)
                     /\ \A i \in 1..Len(entries) :
                           IF entries[i].id = id
                           THEN /\ Has(entries[i], "images")
                                /\ (0 <= imageIndex /\ imageIndex < Len(entries[i].images)) =>
                                      ImagesSet(entries'[i], entries[i],
                                                RemoveAt(entries[i].images, imageIndex))
                           ELSE entries'[i] = entries[i]
                     /\ IF IsCurrent(id) /\ id \in IdsOf(entries)
                        THEN /\ Has(currentEntry, "images")
                             /\ (0 <= imageIndex /\ imageIndex < Len(currentEntry.images)) =>
                                   ImagesSet(currentEntry', currentEntry,
                                             RemoveAt(currentEntry.images, imageIndex))
                        ELSE currentEntry' = currentEntry]_vars

C31_QuiescentStreak ==
    pendingStreak = 0 =>
        \E zone \in Zones :
            LET r == calculateStreakResult(entries, now, zone) IN
            /\ ~r.threw
            /\ streakData = r.streakData

(***************************************************************************)
(* The claims about what the actions leave alone, checked under EntrySpec. *)
(***************************************************************************)
\* C34: deleteEntry(id) and restoreEntry(id) change only isDeleted and deletedAt of the
\* entries with that id: the collection keeps the same entries in the same order, and
\* every other field of every entry (title, content, tags, mood, isFavorite, images,
\* createdAt, updatedAt among them) is unchanged; with an id not in the collection the
\* collection is unchanged.
C34_DeleteRestoreFrame ==
    [][(Step("deleteEntry") \/ Step("restoreEntry")) =>
          /\ Len(entries') = Len(entries)
          /\ \A i \in 1..Len(entries) :
                IF entries[i].id = lastOp'.id
                THEN \A k \in EntryFields \ {"isDeleted", "deletedAt"} :
                         SameField(entries'[i], entries[i], k)
                ELSE entries'[i] = entries[i]
          /\ lastOp'.id \notin IdsOf(entries) => entries' = entries]_vars

C34_Witness ==
    /\ lastOp.op = "restoreEntry"
    /\ lastOp.wasDeleted
    /\ Len(entries) = 2
    /\ \E i \in 1..2 :
          /\ entries[i].id = lastOp.id
          /\ NotDeleted(entries[i])
          /\ ~Has(entries[i], "deletedAt")
          /\ entries[i].updatedAt < now
          /\ entries[3 - i].id # lastOp.id

(***************************************************************************)
(* The claims about every state the actions reach, checked under Spec and  *)
(* EntrySpec.                                                              *)
(***************************************************************************)
\* tags and images are lists, isFavorite and isDeleted are booleans, createdAt and
\* updatedAt are valid dates
WellFormed(e) ==
    /\ Has(e, "tags") /\ Has(e, "images")
    /\ Has(e, "isFavorite") /\ e.isFavorite \in BOOLEAN
    /\ Has(e, "isDeleted") /\ e.isDeleted \in BOOLEAN
    /\ Has(e, "createdAt") /\ e.createdAt # InvalidDate
    /\ Has(e, "updatedAt") /\ e.updatedAt # InvalidDate

\* C35: in every state reached by the store actions, the import of entries that carry
\* only id, title and content included, every entry of the collection is well-formed,
\* and getAllTags, the filtered view (with or without a selected tag) and
\* calculateStreak complete without failure.
C35_WellFormedEntries ==
    /\ \A i \in 1..Len(entries) : WellFormed(entries[i])
    /\ ~getAllTags(Store).threw
    /\ \A tag \in {NullString, "a"} :
          ~getFilteredEntries([Store EXCEPT !.selectedTag = tag]).threw
    /\ \A zone \in Zones : ~calculateStreakResult(entries, now, zone).threw

\* C36: in every state currentEntry is null or its id is the id of an entry of the
\* collection: no sequence of actions, deleteEntry, permanentlyDeleteEntry, emptyBin,
\* restoreEntry and importEntries among them, leaves currentEntry with the id of an
\* entry that has been removed.
C36_CurrentInCollection ==
    currentEntry = Null \/ currentEntry.id \in IdsOf(entries)

C36_Witness ==
    /\ lastOp.op = "emptyBin"
    /\ lastOp.currentWasDeleted
    /\ lastOp.purged
    /\ currentEntry = Null
    /\ entries = <<>>

(***************************************************************************)
(* The claims about the tag cache, checked under CacheSpec.                *)
(***************************************************************************)
\* the elements of an array, as a set
ElementsIn(arr) == {arr[k] : k \in 1..Len(arr)}

\* the tags of the entries that are not deleted, as a set
ActiveTags ==
    UNION {ElementsIn(entries[i].tags) :
              i \in {j \in 1..Len(entries) : NotDeleted(entries[j]) /\ Has(entries[j], "tags")}}

\* the last action called is one that can change the tags of the entries that are not
\* deleted
ChangesTags ==
    \/ lastOp.op \in {"createEntry", "createEntryWithTemplate", "updateEntry", "deleteEntry",
                      "restoreEntry", "permanentlyDeleteEntry", "emptyBin"}
    \/ lastOp.op = "importEntries" /\ lastOp.result

\* C37: in every state cachedTags is null or holds, as a set, the tags of the entries
\* that are not deleted; every createEntry, updateEntry, deleteEntry, restoreEntry,
\* permanentlyDeleteEntry, emptyBin and successful importEntries sets cachedTags to
\* null, and only updateTagCache sets it to a value that is not null.
C37_TagCache ==
    /\ [](cachedTags = Null \/ ElementsIn(cachedTags.list) = ActiveTags)
    /\ [][/\ (steps' = steps + 1 /\ ChangesTags') => cachedTags' = Null
          /\ (cachedTags' # Null /\ cachedTags' # cachedTags) =>
                 lastOp'.op = "updateTagCache"]_vars

C37_Witness ==
    /\ lastOp.op = "updateTagCache"
    /\ ~lastOp.threw
    /\ cachedTags # Null
    /\ cachedTags.list = <<"daily">>
    /\ \E i \in 1..Len(entries) :
          ~NotDeleted(entries[i]) /\ Has(entries[i], "tags") /\ entries[i].tags = <<"a">>

(***************************************************************************)
(* The claims about the selection of the current entry, checked under      *)
(* EntrySpec.                                                              *)
(***************************************************************************)
\* C39: setCurrentEntry(id) with an id that is not in the collection leaves the whole
\* state, currentEntry and isEditing included, unchanged; with an id in the collection
\* it sets currentEntry to the entry with that id and isEditing to false; with null it
\* sets currentEntry to null and leaves isEditing unchanged; in all cases the entries
\* are unchanged.
C39_SetCurrentEntry ==
    [][Step("setCurrentEntry") =>
          LET arg == lastOp'.arg IN
          /\ entries' = entries
          /\ UNCHANGED <<cachedTags, entriesLength, streakData, filterVars, settings,
                         pendingStreak>>
          /\ IF arg = Null
             THEN currentEntry' = Null /\ isEditing' = isEditing
             ELSE IF arg.id \notin IdsOf(entries)
             THEN currentEntry' = currentEntry /\ isEditing' = isEditing
             ELSE /\ currentEntry' # Null
                  /\ currentEntry'.id = arg.id
                  /\ \E i \in 1..Len(entries) : entries[i] = currentEntry'
                  /\ isEditing' = FALSE]_vars

C39_Witness ==
    /\ lastOp.op = "setCurrentEntry"
    /\ lastOp.arg # Null
    /\ Len(entries) = 2
    /\ entries[1].id # lastOp.arg.id
    /\ currentEntry = entries[2]
    /\ ~isEditing
====
